---- MODULE Spec2Model ----
(***************************************************************************)
(* IFS::LittleFS::FileSystem (src/src/FileSystem.cpp): the adapter that    *)
(* puts the IFS file-system interface on top of the littlefs engine.       *)
(*                                                                         *)
(* The adapter's own state (mounted, fileDescriptors, rootAcl) and every   *)
(* public method are translated from FileSystem.cpp / FileSystem.h.  The   *)
(* engine (lfs_* functions) lives outside the repository's sources; it is  *)
(* modelled as a faithful store: a tree of entries with data and           *)
(* attributes, and per-handle write caches committed by sync/close.        *)
(***************************************************************************)
EXTENDS Integers, Sequences, FiniteSets, TLC

(***************************************************************************)
(* Program constants                                                       *)
(***************************************************************************)
\* FileSystem.h:33  #define LFS_HANDLE_MIN 200
LFS_HANDLE_MIN == 200

\* FileSystem.h:38  #define LFS_MAX_FDS 5
LFS_MAX_FDS == 5

\* FileSystem.h:42
LFS_HANDLE_MAX == LFS_HANDLE_MIN + LFS_MAX_FDS - 1

\* FileSystem.h:46  constexpr size_t LFS_BLOCK_SIZE{4096}
LFS_BLOCK_SIZE == 4096

(***************************************************************************)
(* Bounds of the model                                                     *)
(***************************************************************************)
\* fsGetTimeUTC() returns a value in 1..MaxTime
MaxTime == 2

\* a file holds at most MaxFileSize bytes
MaxFileSize == 2

\* number of descriptors the attribute scenarios keep open at once
MaxOpenAttr == 1

\* partition.size() / LFS_BLOCK_SIZE of the partition
PartitionBlocks == 4

(***************************************************************************)
(* Results.  Every public method returns an int: a non-negative value      *)
(* (FS_OK = 0, a byte count, a position, a handle) or a negative error     *)
(* code.  The unified codes are kept symbolic: [code, val, sys], where     *)
(* code "OK" carries the non-negative value in val and code "System"       *)
(* (Error::fromSystem) carries the engine's own code in sys.               *)
(***************************************************************************)
Ok(n) == [code |-> "OK", val |-> n, sys |-> ""]

FS_OK == Ok(0)

Err(name) == [code |-> name, val |-> 0, sys |-> ""]

\* Error::fromSystem(err): an engine code carried into the unified space
FromSystem(e) == [code |-> "System", val |-> 0, sys |-> e]

IsErr(r) == r.code # "OK"

\* An engine result: err = "LFS_ERR_OK" with a non-negative value, or an
\* engine error code (lfs.h enum lfs_error, plus Error.h's LFS_ERR_IO_*)
LfsOk(n) == [err |-> "LFS_ERR_OK", val |-> n]

LfsErr(e) == [err |-> e, val |-> 0]

\* Error.cpp:57-68 with LFS_ERROR_TRANSLATION_MAP (Error.cpp:31-40)
translateLfsError(r) ==
    CASE r.err = "LFS_ERR_OK"          -> Ok(r.val)
      [] r.err = "LFS_ERR_IO"          -> Err("ReadFailure")
      [] r.err = "LFS_ERR_CORRUPT"     -> Err("BadFileSystem")
      [] r.err = "LFS_ERR_NOENT"       -> Err("NotFound")
      [] r.err = "LFS_ERR_EXIST"       -> Err("Exists")
      [] r.err = "LFS_ERR_FBIG"        -> Err("TooBig")
      [] r.err = "LFS_ERR_BADF"        -> Err("InvalidHandle")
      [] r.err = "LFS_ERR_INVAL"       -> Err("BadParam")
      [] r.err = "LFS_ERR_NOSPC"       -> Err("NoSpace")
      [] r.err = "LFS_ERR_NAMETOOLONG" -> Err("NameTooLong")
      [] OTHER                         -> FromSystem(r.err)

(***************************************************************************)
(* Paths.  A path is a C string, modelled as a sequence of characters, or  *)
(* the null pointer.                                                       *)
(***************************************************************************)
NullPath == <<"nullptr">>

\* IFS::isRootPath(const char*& path) / FS_CHECK_PATH: one leading '/' is
\* skipped; an empty remainder (and nullptr) is the root, normalised to nullptr
FS_CHECK_PATH(path) ==
    IF path = NullPath THEN NullPath
    ELSE LET p == IF path # <<>> /\ Head(path) = "/" THEN Tail(path) ELSE path
         IN  IF p = <<>> THEN NullPath ELSE p

isRootPath(path) == FS_CHECK_PATH(path) = NullPath

\* `path ?: ""`
OrEmpty(path) == IF path = NullPath THEN <<>> ELSE path

RECURSIVE SplitPath(_, _, _)
\* the engine's path walk: names separated by (runs of) '/'
SplitPath(path, cur, acc) ==
    IF path = <<>> THEN (IF cur = <<>> THEN acc ELSE Append(acc, cur))
    ELSE IF Head(path) = "/"
         THEN SplitPath(Tail(path), <<>>, IF cur = <<>> THEN acc ELSE Append(acc, cur))
         ELSE SplitPath(Tail(path), Append(cur, Head(path)), acc)

\* the entry a path names in the engine: the sequence of its names (root = <<>>)
Node(path) == SplitPath(path, <<>>, <<>>)

RECURSIVE LastSlash(_, _)
LastSlash(path, i) ==
    IF i = 0 THEN 0 ELSE IF path[i] = "/" THEN i ELSE LastSlash(path, i - 1)

\* FileSystem.cpp:335-343  strrchr(path, '/'), the part after it
BaseName(path) ==
    IF path = NullPath THEN <<>>
    ELSE SubSeq(path, LastSlash(path, Len(path)) + 1, Len(path))

Front(s) == SubSeq(s, 1, Len(s) - 1)

IsPrefix(p, s) == Len(p) <= Len(s) /\ SubSeq(s, 1, Len(p)) = p

(***************************************************************************)
(* Attributes.  A tag is a small integer (IFS::AttributeTag); an attribute *)
(* value is modelled by its leading bytes read as an integer, with the     *)
(* byte size it was stored with.                                           *)
(***************************************************************************)
TagModifiedTime == 0

TagFileAttributes == 1

TagReadAce == 2

TagWriteAce == 3

TagCompression == 4

\* AttributeTag::User: tags below it are the fixed-size system tags
TagUser == 16

\* FileAttributes bitset: 1 << FileAttribute::ReadOnly
ReadOnlyMask == 4

HasReadOnly(v) == (v \div ReadOnlyMask) % 2 = 1

\* IFS::getAttributeSize(tag): sizeof the system tag's type, 0 for the others
getAttributeSize(tag) ==
    CASE tag = TagModifiedTime   -> 4
      [] tag = TagFileAttributes -> 1
      [] tag = TagReadAce        -> 1
      [] tag = TagWriteAce       -> 1
      [] tag = TagCompression    -> 5
      [] OTHER                   -> 0

\* uint8_t(tag)
Uint8(tag) == tag % 256

Attr(v, size) == [val |-> v, size |-> size]

NoAttrs == [t \in {} |-> Attr(0, 0)]

(***************************************************************************)
(* The engine's committed state: a tree of entries, keyed by node (the     *)
(* sequence of names from the root).  The root <<>> always exists on a     *)
(* formatted volume and may carry attributes.                              *)
(***************************************************************************)
DirEntry == [type |-> "dir", data |-> <<>>, attrs |-> NoAttrs]

FileEntry == [type |-> "file", data |-> <<>>, attrs |-> NoAttrs]

\* lfs_format: an empty root directory
FreshVol == (<<>> :> DirEntry)

Exists(v, n) == n \in DOMAIN v

Children(v, n) == {m \in DOMAIN v : Len(m) = Len(n) + 1 /\ IsPrefix(n, m)}

\* the engine's path walk to node n: LFS_ERR_OK when n exists, else the error
Lookup(v, n) ==
    IF Exists(v, n) THEN "LFS_ERR_OK"
    ELSE IF \E k \in 1..(Len(n) - 1) :
               Exists(v, SubSeq(n, 1, k)) /\ v[SubSeq(n, 1, k)].type # "dir"
         THEN "LFS_ERR_NOTDIR"
         ELSE "LFS_ERR_NOENT"

\* n does not exist but its parent directory does
Creatable(v, n) ==
    /\ ~Exists(v, n) /\ n # <<>>
    /\ Exists(v, Front(n)) /\ v[Front(n)].type = "dir"

WithAttr(attrs, tag, a) ==
    [t \in (DOMAIN attrs) \cup {tag} |-> IF t = tag THEN a ELSE attrs[t]]

WithoutAttr(attrs, tag) == [t \in (DOMAIN attrs) \ {tag} |-> attrs[t]]

\* lfs_getattr(path, type): [err, attr]
lfs_getattr(v, n, tag) ==
    IF ~Exists(v, n) THEN [err |-> Lookup(v, n), attr |-> Attr(0, 0)]
    ELSE IF tag \notin DOMAIN v[n].attrs
         THEN [err |-> "LFS_ERR_NOATTR", attr |-> Attr(0, 0)]
         ELSE [err |-> "LFS_ERR_OK", attr |-> v[n].attrs[tag]]

\* lfs_setattr(path, type, buffer, size): [err, vol]
lfs_setattr(v, n, tag, a) ==
    IF ~Exists(v, n) THEN [err |-> Lookup(v, n), vol |-> v]
    ELSE [err |-> "LFS_ERR_OK",
          vol |-> [v EXCEPT ![n].attrs = WithAttr(@, tag, a)]]

\* lfs_removeattr(path, type): [err, vol]
lfs_removeattr(v, n, tag) ==
    IF ~Exists(v, n) THEN [err |-> Lookup(v, n), vol |-> v]
    ELSE [err |-> "LFS_ERR_OK",
          vol |-> [v EXCEPT ![n].attrs = WithoutAttr(@, tag)]]

\* lfs_mkdir(path): [err, vol]
lfs_mkdir(v, n) ==
    IF Exists(v, n) THEN [err |-> "LFS_ERR_EXIST", vol |-> v]
    ELSE IF ~Creatable(v, n) THEN [err |-> Lookup(v, n), vol |-> v]
    ELSE [err |-> "LFS_ERR_OK", vol |-> (n :> DirEntry) @@ v]

\* lfs_remove(path): [err, vol]
lfs_remove(v, n) ==
    IF ~Exists(v, n) THEN [err |-> Lookup(v, n), vol |-> v]
    ELSE IF n = <<>> THEN [err |-> "LFS_ERR_INVAL", vol |-> v]
    ELSE IF Children(v, n) # {} THEN [err |-> "LFS_ERR_NOTEMPTY", vol |-> v]
    ELSE [err |-> "LFS_ERR_OK", vol |-> [m \in (DOMAIN v) \ {n} |-> v[m]]]

\* node m after the subtree at o has been moved to n
Moved(m, o, n) == IF IsPrefix(o, m) THEN n \o SubSeq(m, Len(o) + 1, Len(m)) ELSE m

\* lfs_rename(oldpath, newpath): [err, vol]
lfs_rename(v, o, n) ==
    IF ~Exists(v, o) THEN [err |-> Lookup(v, o), vol |-> v]
    ELSE IF o = <<>> \/ n = <<>> THEN [err |-> "LFS_ERR_INVAL", vol |-> v]
    ELSE IF ~Exists(v, n) /\ ~Creatable(v, n) THEN [err |-> Lookup(v, n), vol |-> v]
    ELSE IF IsPrefix(o, n) /\ o # n THEN [err |-> "LFS_ERR_INVAL", vol |-> v]
    ELSE IF Exists(v, n) /\ v[n].type # v[o].type
         THEN [err |-> IF v[n].type = "dir" THEN "LFS_ERR_ISDIR" ELSE "LFS_ERR_NOTDIR",
               vol |-> v]
    ELSE IF o = n THEN [err |-> "LFS_ERR_OK", vol |-> v]
    ELSE IF Exists(v, n) /\ Children(v, n) # {}
         THEN [err |-> "LFS_ERR_NOTEMPTY", vol |-> v]
    ELSE LET keep == {m \in DOMAIN v : ~IsPrefix(o, m) /\ m # n}
             move == {m \in DOMAIN v : IsPrefix(o, m)}
         IN  [err |-> "LFS_ERR_OK",
              vol |-> [m \in keep \cup {Moved(x, o, n) : x \in move} |->
                          IF m \in keep THEN v[m]
                          ELSE v[CHOOSE x \in move : Moved(x, o, n) = m]]]

(***************************************************************************)
(* The engine's open files (lfs_file_t).  A handle works on its own copy   *)
(* of the file's data (cache); lfs_file_sync / lfs_file_close commit it.   *)
(* A handle whose entry was removed or renamed away is orphaned: it no     *)
(* longer commits anything.                                                *)
(***************************************************************************)
NoFile ==
    [node |-> <<>>, orphan |-> FALSE, oflags |-> {}, pos |-> 0,
     cache |-> <<>>, dirty |-> FALSE, type |-> "file"]

\* lfs_file_opencfg(file, path, flags, cfg): [err, vol, file]
lfs_file_opencfg(v, n, oflags, fault) ==
    IF fault THEN [err |-> "LFS_ERR_IO_READ", vol |-> v, file |-> NoFile]
    ELSE IF Exists(v, n)
    THEN LET trunc == "LFS_O_TRUNC" \in oflags /\ v[n].type = "file"
         IN  [err |-> "LFS_ERR_OK", vol |-> v,
              file |-> [node |-> n, orphan |-> FALSE, oflags |-> oflags, pos |-> 0,
                        cache |-> IF trunc THEN <<>> ELSE v[n].data,
                        dirty |-> trunc, type |-> v[n].type]]
    ELSE IF "LFS_O_CREAT" \in oflags /\ Creatable(v, n)
    THEN [err |-> "LFS_ERR_OK", vol |-> (n :> FileEntry) @@ v,
          file |-> [node |-> n, orphan |-> FALSE, oflags |-> oflags, pos |-> 0,
                    cache |-> <<>>, dirty |-> FALSE, type |-> "file"]]
    ELSE [err |-> Lookup(v, n), vol |-> v, file |-> NoFile]

\* the handle's data reaches the volume
Commit(v, f) ==
    IF f.dirty /\ ~f.orphan /\ Exists(v, f.node) /\ f.type = "file"
    THEN [v EXCEPT ![f.node].data = f.cache]
    ELSE v

\* lfs_file_sync(file): [err, vol, file]
lfs_file_sync(v, f, fault) ==
    IF fault THEN [err |-> "LFS_ERR_IO_WRITE", vol |-> v, file |-> f]
    ELSE [err |-> "LFS_ERR_OK", vol |-> Commit(v, f), file |-> [f EXCEPT !.dirty = FALSE]]

\* lfs_file_close(file): sync, then the handle is gone: [err, vol]
lfs_file_close(v, f, fault) ==
    [err |-> lfs_file_sync(v, f, fault).err, vol |-> lfs_file_sync(v, f, fault).vol]

Zeros(n) == [i \in 1..n |-> 0]

Min(a, b) == IF a < b THEN a ELSE b

\* memcpy(buffer, &value, min(size, n)) of a little-endian value of n bytes:
\* what the first min(size, n) bytes hold; nothing is copied when that is 0
CopyOut(val, n, size) ==
    IF Min(size, n) = 0 THEN <<>>
    ELSE IF Min(size, n) >= 4 THEN <<val>>
    ELSE <<val % (256 ^ Min(size, n))>>

\* data written at position p of content c (a gap is filled with zeros)
Overwrite(c, p, data) ==
    LET base == IF p > Len(c) THEN c \o Zeros(p - Len(c)) ELSE c
        n    == IF p + Len(data) > Len(base) THEN p + Len(data) ELSE Len(base)
    IN  [i \in 1..n |-> IF i > p /\ i <= p + Len(data) THEN data[i - p] ELSE base[i]]

\* lfs_file_write(file, buffer, size): [err, val, file]
lfs_file_write(f, data) ==
    LET p == IF "LFS_O_APPEND" \in f.oflags THEN Len(f.cache) ELSE f.pos
    IN  IF f.type # "file" THEN [err |-> "LFS_ERR_ISDIR", val |-> 0, file |-> f]
        ELSE IF p + Len(data) > MaxFileSize
        THEN [err |-> "LFS_ERR_FBIG", val |-> 0, file |-> f]
        ELSE [err |-> "LFS_ERR_OK", val |-> Len(data),
              file |-> [f EXCEPT !.cache = Overwrite(f.cache, p, data),
                                 !.pos = p + Len(data),
                                 !.dirty = TRUE]]

\* lfs_file_read(file, buffer, size): [err, val, data, file]
lfs_file_read(f, size) ==
    LET n == IF f.pos >= Len(f.cache) THEN 0 ELSE Min(size, Len(f.cache) - f.pos)
    IN  IF "LFS_O_RDONLY" \notin f.oflags
        THEN [err |-> "LFS_ERR_BADF", val |-> 0, data |-> <<>>, file |-> f]
        ELSE [err |-> "LFS_ERR_OK", val |-> n,
              data |-> SubSeq(f.cache, f.pos + 1, f.pos + n),
              file |-> [f EXCEPT !.pos = f.pos + n]]

\* lfs_file_seek(file, off, whence): [err, val, file]
lfs_file_seek(f, off, whence) ==
    LET npos == CASE whence = "Start"   -> off
                  [] whence = "Current" -> f.pos + off
                  [] OTHER              -> Len(f.cache) + off
    IN  IF npos < 0 THEN [err |-> "LFS_ERR_INVAL", val |-> 0, file |-> f]
        ELSE [err |-> "LFS_ERR_OK", val |-> npos, file |-> [f EXCEPT !.pos = npos]]

\* lfs_file_truncate(file, size): [err, file]
lfs_file_truncate(f, size) ==
    IF f.type # "file" THEN [err |-> "LFS_ERR_ISDIR", file |-> f]
    ELSE IF size > MaxFileSize THEN [err |-> "LFS_ERR_FBIG", file |-> f]
    ELSE [err |-> "LFS_ERR_OK",
          file |-> [f EXCEPT !.cache = IF size <= Len(f.cache)
                                       THEN SubSeq(f.cache, 1, size)
                                       ELSE f.cache \o Zeros(size - Len(f.cache)),
                             !.pos = Min(f.pos, size),
                             !.dirty = TRUE]]

\* lfs_file_getattr(file, type): the attribute of the handle's entry
lfs_file_getattr(v, f, tag) ==
    IF f.orphan THEN [err |-> "LFS_ERR_NOENT", attr |-> Attr(0, 0)]
    ELSE lfs_getattr(v, f.node, tag)

\* lfs_file_setattr(file, type, buffer, size): [err, vol]
lfs_file_setattr(v, f, tag, a) ==
    IF f.orphan THEN [err |-> "LFS_ERR_NOENT", vol |-> v]
    ELSE lfs_setattr(v, f.node, tag, a)

\* lfs_file_removeattr(file, type): [err, vol]
lfs_file_removeattr(v, f, tag) ==
    IF f.orphan THEN [err |-> "LFS_ERR_NOENT", vol |-> v]
    ELSE lfs_removeattr(v, f.node, tag)

\* the characters the names of the model are made of, in byte order
Alphabet == <<"a", "b">>

CharRank(c) == IF \E i \in DOMAIN Alphabet : Alphabet[i] = c
               THEN CHOOSE i \in DOMAIN Alphabet : Alphabet[i] = c
               ELSE 0

RECURSIVE NameLess(_, _)
\* strcmp(x, y) < 0: the order the engine keeps a directory's entries in
NameLess(x, y) ==
    IF y = <<>> THEN FALSE
    ELSE IF x = <<>> THEN TRUE
    ELSE IF Head(x) = Head(y) THEN NameLess(Tail(x), Tail(y))
    ELSE CharRank(Head(x)) < CharRank(Head(y))

RECURSIVE SortedNames(_)
SortedNames(S) ==
    IF S = {} THEN <<>>
    ELSE LET m == CHOOSE x \in S : \A y \in S \ {x} : NameLess(x, y)
         IN  <<m>> \o SortedNames(S \ {m})

\* the names of the entries of directory n
ChildNames(v, n) == {m[Len(m)] : m \in Children(v, n)}

NameDot == <<".">>

NameDotDot == <<".", ".">>

\* what a walk of directory n yields: "." and ".." first, then the entries
DirListing(v, n) == <<NameDot, NameDotDot>> \o SortedNames(ChildNames(v, n))

\* a closed lfs_dir_t
NoCursor == [node |-> <<>>, pos |-> 0]

\* lfs_dir_open(dir, path): [err, dir]
lfs_dir_open(v, n) ==
    IF ~Exists(v, n) THEN [err |-> Lookup(v, n), dir |-> NoCursor]
    ELSE IF v[n].type # "dir" THEN [err |-> "LFS_ERR_NOTDIR", dir |-> NoCursor]
    ELSE [err |-> "LFS_ERR_OK", dir |-> [node |-> n, pos |-> 0]]

\* lfs_dir_seek(dir, off): [err, dir]
lfs_dir_seek(v, d, off) ==
    IF off > Len(DirListing(v, d.node)) THEN [err |-> "LFS_ERR_INVAL", dir |-> d]
    ELSE [err |-> "LFS_ERR_OK", dir |-> [d EXCEPT !.pos = off]]

\* lfs_dir_readcfg(dir, info, cfg): [val, name, dir]; val = 0 at the end of
\* the directory, 1 when an entry was read
lfs_dir_readcfg(v, d) ==
    IF d.pos >= Len(DirListing(v, d.node))
    THEN [val |-> 0, name |-> <<>>, dir |-> d]
    ELSE [val |-> 1, name |-> DirListing(v, d.node)[d.pos + 1],
          dir |-> [d EXCEPT !.pos = @ + 1]]

(***************************************************************************)
(* The adapter's state                                                     *)
(***************************************************************************)
VARIABLES
    partition,        \* Storage::Partition: "none", "bad" (not littlefs) or "ok"
    formatted,        \* the partition holds a littlefs image
    vol,              \* that image: the engine's committed tree
    mounted,          \* FileSystem::mounted
    fileDescriptors,  \* FileSystem::fileDescriptors[LFS_MAX_FDS]
    rootAcl,          \* FileSystem::rootAcl
    now,              \* what fsGetTimeUTC() returns
    last,             \* the last call: its arguments, result and engine calls
    rt,               \* progress of a write/reopen/read round trip
    dirs,             \* the FileDir objects handed out as DirHandle
    profiler          \* FileSystem::profiler is not nullptr

vars == <<partition, formatted, vol, mounted, fileDescriptors, rootAcl, now, last, rt,
          dirs, profiler>>

Slots == 0..(LFS_MAX_FDS - 1)

\* an empty std::unique_ptr<FileDescriptor>
NoFd == [open |-> FALSE, name |-> <<>>, file |-> NoFile, mtime |-> 0, flags |-> {}]

NoStat ==
    [name |-> <<>>, size |-> 0, mtime |-> 0, attr |-> 0, dir |-> FALSE,
     readAccess |-> 0, writeAccess |-> 0, compression |-> 0]

NoAcl == [readAccess |-> 0, writeAccess |-> 0]

\* directory handles open at a time
MaxOpenDir == 2

\* DirHandle values: 0 is the null handle, the others name FileDir objects
DirHandles == 1..MaxOpenDir

\* no FileDir behind the handle; seen: the names readdir returned since the
\* cursor was last placed by opendir or rewinddir
NoDir == [open |-> FALSE, dir |-> NoCursor, seen |-> <<>>]

\* IFileSystem::Info after clear(): the Mounted attribute and the two sizes
NoInfo == [mounted |-> FALSE, volumeSize |-> 0, freeSpace |-> 0]

\* what a call leaves behind: result, engine calls made (in order), new state
Out(res, calls, fds, v, acl) ==
    [res |-> res, calls |-> calls, fds |-> fds, vol |-> v, acl |-> acl,
     data |-> <<>>, stat |-> NoStat, info |-> NoInfo]

\* a call that returns res and changes nothing
Keep(res, calls) == Out(res, calls, fileDescriptors, vol, rootAcl)

\* Mutant: the handle's range is checked before the mount state, and an
\* empty slot is reported as an invalid handle
GetFdErr_rangeFirst(file) ==
    IF file < LFS_HANDLE_MIN \/ file > LFS_HANDLE_MAX THEN "InvalidHandle"
    ELSE IF ~mounted THEN "NotMounted"
    ELSE IF ~fileDescriptors[file - LFS_HANDLE_MIN].open THEN "InvalidHandle"
    ELSE "OK"

\* FileSystem.cpp:87-100  CHECK_MOUNTED / GET_FD: the error, or "OK"
GetFdErr(file) ==
    IF ~mounted THEN "NotMounted"
    ELSE IF file < LFS_HANDLE_MIN \/ file > LFS_HANDLE_MAX THEN "InvalidHandle"
    ELSE IF ~fileDescriptors[file - LFS_HANDLE_MIN].open THEN "FileNotOpen"
    ELSE "OK"

\* `auto& fd = fileDescriptors[file - LFS_HANDLE_MIN]`
FdOf(file) == fileDescriptors[file - LFS_HANDLE_MIN]

WithFd(file, fd) == [fileDescriptors EXCEPT ![file - LFS_HANDLE_MIN] = fd]

\* Mutant: the descriptors opened for writing are the ones refused
CheckWriteFails_inverted(fd) == "Write" \in fd.flags

\* Mutant: CHECK_WRITE left out
CheckWriteFails_never(fd) == FALSE

\* FileSystem.cpp:102-105  CHECK_WRITE
CheckWriteFails(fd) == "Write" \notin fd.flags

RecognisedFlags == {"Append", "Truncate", "Create", "Read", "Write", "NoFollow"}

\* Mutant: the unrecognised flags are dropped
mapFileOpenFlags_lenient(flags) ==
    [rest |-> {},
     oflags |-> {CASE f = "Append" -> "LFS_O_APPEND" [] f = "Truncate" -> "LFS_O_TRUNC"
                   [] f = "Create" -> "LFS_O_CREAT" [] f = "Read" -> "LFS_O_RDONLY"
                   [] OTHER -> "LFS_O_WRONLY"
                 : f \in flags \cap {"Append", "Truncate", "Create", "Read", "Write"}}]

\* Mutant: Create is mapped to create-and-truncate
mapFileOpenFlags_truncating(flags) ==
    [rest |-> flags \ RecognisedFlags,
     oflags |-> {CASE f = "Append" -> "LFS_O_APPEND" [] f = "Read" -> "LFS_O_RDONLY"
                   [] f = "Create" -> "LFS_O_CREAT" [] OTHER -> "LFS_O_WRONLY"
                 : f \in flags \cap {"Append", "Create", "Read", "Write"}}
                \cup (IF flags \cap {"Truncate", "Create"} # {} THEN {"LFS_O_TRUNC"} ELSE {})]

\* FileSystem.cpp:60-85  mapFileOpenFlags: [rest (the flags not recognised), oflags]
mapFileOpenFlags(flags) ==
    [rest |-> flags \ RecognisedFlags,
     oflags |-> {CASE f = "Append" -> "LFS_O_APPEND" [] f = "Truncate" -> "LFS_O_TRUNC"
                   [] f = "Create" -> "LFS_O_CREAT" [] f = "Read" -> "LFS_O_RDONLY"
                   [] OTHER -> "LFS_O_WRONLY"
                 : f \in flags \cap {"Append", "Truncate", "Create", "Read", "Write"}}]

\* FileSystem.h:147-157  get_attr(path|file, tag, attr): attr is left as it was
\* when the engine has no such attribute
GetAttrInto(r, old) == IF r.err = "LFS_ERR_OK" THEN r.attr.val ELSE old

\* FileSystem.cpp:552-560  checkRootAcl
checkRootAcl(acl, tag, val) ==
    [readAccess  |-> IF tag = TagReadAce THEN val ELSE acl.readAccess,
     writeAccess |-> IF tag = TagWriteAce THEN val ELSE acl.writeAccess]

\* the descriptors of entries that a remove/rename took away lose their entry
Orphaned(fds, gone) ==
    [i \in Slots |-> IF fds[i].open /\ ~fds[i].file.orphan /\ fds[i].file.node \in gone
                     THEN [fds[i] EXCEPT !.file.orphan = TRUE]
                     ELSE fds[i]]

FreeSlots == {i \in Slots : ~fileDescriptors[i].open}

\* Mutant: the scan stops one slot early
FirstFree_short == {i \in FreeSlots \ {LFS_MAX_FDS - 1} : \A j \in FreeSlots : i <= j}

\* FileSystem.cpp:304-312  the first empty slot, as a set (empty when all are taken)
FirstFree == {i \in FreeSlots : \A j \in FreeSlots : i <= j}

(***************************************************************************)
(* The adapter's methods, as functions of the current state.               *)
(***************************************************************************)
\* FileSystem.cpp:287-294  a write request on a read-only file is refused
OpenReadOnly(flags, attr) == "Write" \in flags /\ HasReadOnly(attr)

\* Mutant: the handle is the slot's index
SlotHandle_index(i) == i

\* FileSystem.cpp:308  file = LFS_HANDLE_MIN + i
SlotHandle(i) == LFS_HANDLE_MIN + i

\* Mutant: the slot allocated for the failed open stays taken
OpenFailed_leak(fds, i) == [fds EXCEPT ![i].open = TRUE]

\* FileSystem.cpp:319-324  fd.reset(): the slot allocated at 307 is empty again
OpenFailed(fds, i) == [fds EXCEPT ![i] = NoFd]

\* FileSystem.cpp:282-346  FileSystem::open
open(path0, flags, fault) ==
    LET path == FS_CHECK_PATH(path0)
        n    == Node(OrEmpty(path))
        attr == GetAttrInto(lfs_getattr(vol, n, TagFileAttributes), 0)
        pre  == IF "Write" \in flags THEN <<"lfs_getattr">> ELSE <<>>
        m    == mapFileOpenFlags(flags)
        o    == lfs_file_opencfg(vol, n, m.oflags, fault)
    IN  IF ~mounted THEN Keep(Err("NotMounted"), <<>>)
        ELSE IF OpenReadOnly(flags, attr) THEN Keep(Err("ReadOnly"), pre)
        ELSE IF m.rest # {} THEN Keep(Err("NotSupported"), pre)
        ELSE IF FirstFree = {} THEN Keep(Err("OutOfFileDescs"), pre)
        ELSE IF o.err # "LFS_ERR_OK"
        THEN Out(translateLfsError(LfsErr(o.err)), pre \o <<"lfs_file_opencfg">>,
                 OpenFailed(fileDescriptors, CHOOSE i \in FirstFree : TRUE), vol, rootAcl)
        ELSE LET i  == CHOOSE i \in FirstFree : TRUE
                 fd == [open  |-> TRUE,
                        name  |-> BaseName(path),
                        file  |-> o.file,
                        mtime |-> GetAttrInto(
                                     lfs_file_getattr(o.vol, o.file, TagModifiedTime), 0),
                        flags |-> (IF isRootPath(path) THEN {"IsRoot"} ELSE {})
                                  \cup (IF "Write" \in flags THEN {"Write"} ELSE {})]
             IN  Out(Ok(SlotHandle(i)),
                     pre \o <<"lfs_file_opencfg", "lfs_file_getattr">>,
                     [fileDescriptors EXCEPT ![i] = fd], o.vol, rootAcl)

\* Mutant: the flag is cleared and the cached time is not written
flushMeta_unwritten(v, fd) ==
    [fd |-> [fd EXCEPT !.flags = @ \ {"TimeChanged"}], vol |-> v, calls |-> <<>>]

\* FileSystem.cpp:391-397  flushMeta: [fd, vol, calls]
flushMeta(v, fd) ==
    IF "TimeChanged" \in fd.flags
    THEN [fd    |-> [fd EXCEPT !.flags = @ \ {"TimeChanged"}],
          vol   |-> lfs_file_setattr(v, fd.file, TagModifiedTime, Attr(fd.mtime, 4)).vol,
          calls |-> <<"lfs_file_setattr">>]
    ELSE [fd |-> fd, vol |-> v, calls |-> <<>>]

\* Mutant: the slot is released only when the engine closed the file
Released_onSuccess(fd, err) == IF err = "LFS_ERR_OK" THEN NoFd ELSE fd

\* FileSystem.cpp:355  fd.reset(), whatever lfs_file_close returned
Released(fd, err) == NoFd

\* FileSystem.cpp:348-357  FileSystem::close
close(file, fault) ==
    LET fd == FdOf(file)
        fm == flushMeta(vol, fd)
        c  == lfs_file_close(fm.vol, fm.fd.file, fault)
    IN  IF GetFdErr(file) # "OK" THEN Keep(Err(GetFdErr(file)), <<>>)
        ELSE Out(translateLfsError(LfsErr(c.err)), fm.calls \o <<"lfs_file_close">>,
                 WithFd(file, Released(fm.fd, c.err)), c.vol, rootAcl)

\* FileSystem.cpp:359-372  FileSystem::eof
eof(file) ==
    IF GetFdErr(file) # "OK" THEN Keep(Err(GetFdErr(file)), <<>>)
    ELSE Keep(Ok(IF FdOf(file).file.pos >= Len(FdOf(file).file.cache) THEN 1 ELSE 0),
              <<"lfs_file_size", "lfs_file_tell">>)

\* FileSystem.cpp:374-380  FileSystem::tell
tell(file) ==
    IF GetFdErr(file) # "OK" THEN Keep(Err(GetFdErr(file)), <<>>)
    ELSE Keep(translateLfsError(LfsOk(FdOf(file).file.pos)), <<"lfs_file_tell">>)

\* FileSystem.cpp:382-389  FileSystem::ftruncate
ftruncate(file, new_size) ==
    LET fd == FdOf(file)
        t  == lfs_file_truncate(fd.file, new_size)
    IN  IF GetFdErr(file) # "OK" THEN Keep(Err(GetFdErr(file)), <<>>)
        ELSE IF CheckWriteFails(fd) THEN Keep(Err("ReadOnly"), <<>>)
        ELSE Out(translateLfsError(LfsErr(t.err)), <<"lfs_file_truncate">>,
                 WithFd(file, [fd EXCEPT !.file = t.file]), vol, rootAcl)

\* FileSystem.cpp:399-408  FileSystem::flush
flush(file, fault) ==
    LET fd == FdOf(file)
        fm == flushMeta(vol, fd)
        sy == lfs_file_sync(fm.vol, fm.fd.file, fault)
    IN  IF GetFdErr(file) # "OK" THEN Keep(Err(GetFdErr(file)), <<>>)
        ELSE IF CheckWriteFails(fd) THEN Keep(Err("ReadOnly"), <<>>)
        ELSE Out(translateLfsError(LfsErr(sy.err)), fm.calls \o <<"lfs_file_sync">>,
                 WithFd(file, [fm.fd EXCEPT !.file = sy.file]), sy.vol, rootAcl)

\* FileSystem.cpp:410-422  FileSystem::read
read(file, size) ==
    LET fd == FdOf(file)
        r  == lfs_file_read(fd.file, size)
    IN  IF GetFdErr(file) # "OK" THEN Keep(Err(GetFdErr(file)), <<>>)
        ELSE [Out(translateLfsError([err |-> r.err, val |-> r.val]), <<"lfs_file_read">>,
                  WithFd(file, [fd EXCEPT !.file = r.file]), vol, rootAcl)
              EXCEPT !.data = r.data]

\* FileDescriptor::touch, FileSystem.h:90-94
touch(fd) == [fd EXCEPT !.mtime = now, !.flags = @ \cup {"TimeChanged"}]

\* FileSystem.cpp:424-436  FileSystem::write
write(file, data) ==
    LET fd == FdOf(file)
        w  == lfs_file_write(fd.file, data)
    IN  IF GetFdErr(file) # "OK" THEN Keep(Err(GetFdErr(file)), <<>>)
        ELSE IF CheckWriteFails(fd) THEN Keep(Err("ReadOnly"), <<>>)
        ELSE IF w.err # "LFS_ERR_OK"
        THEN Keep(translateLfsError(LfsErr(w.err)), <<"lfs_file_write">>)
        ELSE Out(Ok(w.val), <<"lfs_file_write">>,
                 WithFd(file, touch([fd EXCEPT !.file = w.file])), vol, rootAcl)

\* FileSystem.cpp:438-444  FileSystem::lseek
lseek(file, offset, origin) ==
    LET fd == FdOf(file)
        sk == lfs_file_seek(fd.file, offset, origin)
    IN  IF GetFdErr(file) # "OK" THEN Keep(Err(GetFdErr(file)), <<>>)
        ELSE Out(translateLfsError([err |-> sk.err, val |-> sk.val]), <<"lfs_file_seek">>,
                 WithFd(file, [fd EXCEPT !.file = sk.file]), vol, rootAcl)

\* IFS::FileAttribute::Directory as a bit of FileAttributes
DirectoryMask == 8

\* `stat.attr[FileAttribute::Directory] = (type == LFS_TYPE_DIR)`
\* (FileSystem.cpp:48, 514): the bit of the stored byte is replaced by the
\* entry's type, which a Stat here carries in its field dir
SetDirectory(st) ==
    [st EXCEPT !.attr = IF (st.attr \div DirectoryMask) % 2 = 1
                        THEN st.attr - DirectoryMask ELSE st.attr]

\* FileSystem.cpp:458-459  `*stat = Stat{}; stat->acl = rootAcl`
StatInit == [NoStat EXCEPT !.readAccess = rootAcl.readAccess,
                           !.writeAccess = rootAcl.writeAccess]

\* IFS::checkStat: the Compressed bit (1 << 0) follows the compression tag
checkStat(st) ==
    [st EXCEPT !.attr = IF st.compression # 0
                        THEN (IF st.attr % 2 = 0 THEN st.attr + 1 ELSE st.attr)
                        ELSE (IF st.attr % 2 = 1 THEN st.attr - 1 ELSE st.attr)]

\* the value an enumerated attribute leaves in a Stat field, else the default
EnumInto(attrs, tag, old) == IF tag \in DOMAIN attrs THEN attrs[tag].val ELSE old

\* FileSystem.cpp:476-517  FileSystem::fstat
fstat(file, statNull) ==
    LET fd    == FdOf(file)
        size  == Len(fd.file.cache)
        attrs == IF fd.file.orphan \/ ~Exists(vol, fd.file.node) THEN NoAttrs
                 ELSE vol[fd.file.node].attrs
        st    == [name        |-> fd.name,
                  size        |-> size,
                  mtime       |-> fd.mtime,
                  attr        |-> EnumInto(attrs, TagFileAttributes, 0),
                  dir         |-> fd.file.type = "dir",
                  readAccess  |-> EnumInto(attrs, TagReadAce, rootAcl.readAccess),
                  writeAccess |-> EnumInto(attrs, TagWriteAce, rootAcl.writeAccess),
                  compression |-> EnumInto(attrs, TagCompression, 0)]
    IN  IF GetFdErr(file) # "OK" THEN Keep(Err(GetFdErr(file)), <<>>)
        ELSE IF statNull THEN Keep(translateLfsError(LfsOk(size)), <<"lfs_file_size">>)
        ELSE [Keep(FS_OK, <<"lfs_file_size", "lfs_file_enumattr">>)
              EXCEPT !.stat = SetDirectory(checkStat(st))]

\* a byte copied past its field is any of 0..255; the ones drawn here
MaxSpill == 5

\* the names a copy that reaches the name buffer may leave, besides the name
SpillNames == {<<>>, <<"a">>, <<"b">>}

\* the attributes that fstat's callback copies into a Stat field
StatTags == {TagReadAce, TagWriteAce, TagCompression, TagFileAttributes}

\* the Stat fields that hold numbers and are written before checkStat
SpillFields == {"size", "mtime", "attr", "readAccess", "writeAccess", "compression"}

\* the attributes of the descriptor's entry that the engine enumerates
EnumAttrs(fd) ==
    IF fd.file.orphan \/ ~Exists(vol, fd.file.node) THEN NoAttrs
    ELSE vol[fd.file.node].attrs

\* FileSystem.cpp:493-497 with 582: the callback copies min(attrsize, 16)
\* bytes into the Stat field of the tag; a stored attribute longer than the
\* field (setxattr accepts one, FileSystem.cpp:607-610) is copied past it
fstatOverruns(file) ==
    \E tag \in StatTags :
        /\ tag \in DOMAIN EnumAttrs(FdOf(file))
        /\ EnumAttrs(FdOf(file))[tag].size > getAttributeSize(tag)

RECURSIVE SpilledBytes(_, _)
\* the number of bytes copied past their fields for the tags in tags
SpilledBytes(attrs, tags) ==
    IF tags = {} THEN 0
    ELSE LET tag  == CHOOSE t \in tags : TRUE
             over == IF tag \in DOMAIN attrs
                        /\ Min(attrs[tag].size, 16) > getAttributeSize(tag)
                     THEN Min(attrs[tag].size, 16) - getAttributeSize(tag) ELSE 0
         IN  over + SpilledBytes(attrs, tags \ {tag})

\* the Stats that k bytes copied past their fields can leave: every byte
\* lands in one place, so at most k of the fields and the name differ from
\* st, each by any value; checkStat and the Directory bit come after
OverrunStats(st, k) ==
    {SetDirectory(checkStat([f \in DOMAIN st |->
                                IF f \in DOMAIN g THEN g[f]
                                ELSE IF f = "name" THEN nm ELSE st[f]])) :
        <<g, nm>> \in {x \in (UNION {[S -> 0..MaxSpill] :
                                         S \in {T \in SUBSET SpillFields :
                                                   Cardinality(T) <= k}})
                               \X ({st.name} \cup SpillNames) :
                          Cardinality(DOMAIN x[1]) + (IF x[2] = st.name THEN 0 ELSE 1) <= k}}

\* what fstat can leave behind: fstat's result, and when an attribute is
\* copied past its field the same result with any of the Stats of the overrun
fstatOutcomes(file, statNull) ==
    IF GetFdErr(file) = "OK" /\ ~statNull /\ fstatOverruns(file)
    THEN {[fstat(file, statNull) EXCEPT !.stat = x] :
             x \in OverrunStats(fstat(file, statNull).stat,
                                SpilledBytes(EnumAttrs(FdOf(file)), StatTags))}
    ELSE {fstat(file, statNull)}

\* Mutant: the time is cached but not marked as changed
CacheMtime_noFlag(fd, val) == [fd EXCEPT !.mtime = val]

\* FileSystem.cpp:538-542  memcpy(&fd->mtime, ...); flags += TimeChanged
CacheMtime(fd, val) == [fd EXCEPT !.mtime = val, !.flags = @ \cup {"TimeChanged"}]

\* FileSystem.cpp:519-550  FileSystem::fsetxattr
fsetxattr(file, tag, dataNull, val, size) ==
    LET fd == FdOf(file)
        rm == lfs_file_removeattr(vol, fd.file, Uint8(tag))
        st == lfs_file_setattr(vol, fd.file, Uint8(tag), Attr(val, size))
    IN  IF GetFdErr(file) # "OK" THEN Keep(Err(GetFdErr(file)), <<>>)
        ELSE IF CheckWriteFails(fd) THEN Keep(Err("ReadOnly"), <<>>)
        ELSE IF dataNull
        THEN IF tag < TagUser THEN Keep(Err("NotSupported"), <<>>)
             ELSE Out(translateLfsError(LfsErr(rm.err)), <<"lfs_file_removeattr">>,
                      fileDescriptors, rm.vol, rootAcl)
        ELSE IF getAttributeSize(tag) # 0 /\ size # getAttributeSize(tag)
        THEN Keep(Err("BadParam"), <<>>)
        ELSE IF tag = TagModifiedTime
        THEN Out(FS_OK, <<>>, WithFd(file, CacheMtime(fd, val)), vol, rootAcl)
        ELSE Out(translateLfsError(LfsErr(st.err)), <<"lfs_file_setattr">>,
                 fileDescriptors, st.vol,
                 IF st.err = "LFS_ERR_OK" /\ "IsRoot" \in fd.flags
                 THEN checkRootAcl(rootAcl, tag, val) ELSE rootAcl)

\* FileSystem.cpp:562-572  FileSystem::fgetxattr
\* (the engine's result is returned as it is, not translated)
fgetxattr(file, tag, size) ==
    LET fd == FdOf(file)
        g  == lfs_file_getattr(vol, fd.file, Uint8(tag))
    IN  IF GetFdErr(file) # "OK" THEN Keep(Err(GetFdErr(file)), <<>>)
        ELSE IF tag = TagModifiedTime
        THEN [Keep(Ok(4), <<>>)
              EXCEPT !.data = CopyOut(fd.mtime, 4, size)]
        ELSE IF g.err # "LFS_ERR_OK"
        THEN Keep([code |-> "Raw", val |-> 0, sys |-> g.err], <<"lfs_file_getattr">>)
        ELSE [Keep(Ok(g.attr.size), <<"lfs_file_getattr">>)
              EXCEPT !.data = CopyOut(g.attr.val, g.attr.size, size)]

\* FileSystem.cpp:574-591  FileSystem::fenumxattr: the tags handed to the callback
fenumxattr(file) ==
    LET fd == FdOf(file)
    IN  IF GetFdErr(file) # "OK" THEN Keep(Err(GetFdErr(file)), <<>>)
        ELSE IF fd.file.orphan \/ ~Exists(vol, fd.file.node)
        THEN Keep(translateLfsError(LfsErr("LFS_ERR_NOENT")), <<"lfs_file_enumattr">>)
        ELSE Keep(translateLfsError(LfsOk(0)), <<"lfs_file_enumattr">>)

\* Mutant: the ReadOnly bit is not looked at
FRemoveResult_unchecked(attr) == Err("NotImplemented")

\* FileSystem.cpp:761-770  ReadOnly for a read-only file, else NotImplemented
FRemoveResult(attr) == IF HasReadOnly(attr) THEN Err("ReadOnly") ELSE Err("NotImplemented")

\* FileSystem.cpp:755-771  FileSystem::fremove
fremove(file) ==
    LET fd   == FdOf(file)
        attr == GetAttrInto(lfs_file_getattr(vol, fd.file, TagFileAttributes), 0)
    IN  IF GetFdErr(file) # "OK" THEN Keep(Err(GetFdErr(file)), <<>>)
        ELSE Keep(FRemoveResult(attr), <<"lfs_file_getattr">>)

\* Mutant: the used blocks are reported as the free space
FreeSpace_used(blocks, used) == used * LFS_BLOCK_SIZE

\* FileSystem.cpp:220  (config.block_count - usedBlocks) * LFS_BLOCK_SIZE; the
\* engine reports at most block_count used blocks, the unsigned difference
\* does not wrap
FreeSpace(blocks, used) == (blocks - used) * LFS_BLOCK_SIZE

\* FileSystem.cpp:206-224  FileSystem::getinfo; usedBlocks is what lfs_fs_size
\* returns when it does not fail
getinfo(usedBlocks, fault) ==
    IF ~mounted THEN [Keep(FS_OK, <<>>) EXCEPT !.info = NoInfo]
    ELSE IF fault
    THEN [Keep(translateLfsError(LfsErr("LFS_ERR_IO_READ")), <<"lfs_fs_size">>)
          EXCEPT !.info = [NoInfo EXCEPT !.mounted = TRUE]]
    ELSE [Keep(FS_OK, <<"lfs_fs_size">>)
          EXCEPT !.info = [mounted    |-> TRUE,
                           volumeSize |-> PartitionBlocks * LFS_BLOCK_SIZE,
                           freeSpace  |-> FreeSpace(PartitionBlocks, usedBlocks)]]

\* FileSystem.cpp:241-280  FileSystem::fgetextents.  A file no longer than the
\* engine's cache (LFS_CACHE_SIZE, above MaxFileSize) is stored inline
fgetextents(file) ==
    LET fd  == FdOf(file)
        sz  == Len(fd.file.cache)
        end == lfs_file_seek(fd.file, 0, "End").file
        beg == lfs_file_seek(end, 0, "Start").file
        r   == lfs_file_read(beg, 1)
    IN  IF GetFdErr(file) # "OK" THEN Keep(Err(GetFdErr(file)), <<>>)
        ELSE IF sz = 0
        THEN Out(Ok(0), <<"lfs_file_seek">>,
                 WithFd(file, [fd EXCEPT !.file = end]), vol, rootAcl)
        ELSE IF r.err # "LFS_ERR_OK"
        THEN Out(translateLfsError(LfsErr(r.err)),
                 <<"lfs_file_seek", "lfs_file_seek", "lfs_file_read">>,
                 WithFd(file, [fd EXCEPT !.file = beg]), vol, rootAcl)
        ELSE Out(Err("NotSupported"),
                 <<"lfs_file_seek", "lfs_file_seek", "lfs_file_read">>,
                 WithFd(file, [fd EXCEPT !.file = r.file]), vol, rootAcl)

\* FileSystem.cpp:593-621  FileSystem::setxattr
setxattr(path0, tag, dataNull, val, size) ==
    LET path == FS_CHECK_PATH(path0)
        n    == Node(OrEmpty(path))
        rm   == lfs_removeattr(vol, n, Uint8(tag))
        st   == lfs_setattr(vol, n, Uint8(tag), Attr(val, size))
    IN  IF ~mounted THEN Keep(Err("NotMounted"), <<>>)
        ELSE IF dataNull
        THEN IF tag < TagUser THEN Keep(Err("NotSupported"), <<>>)
             ELSE Out(translateLfsError(LfsErr(rm.err)), <<"lfs_removeattr">>,
                      fileDescriptors, rm.vol, rootAcl)
        ELSE IF tag < TagUser /\ size < getAttributeSize(tag) THEN Keep(Err("BadParam"), <<>>)
        ELSE IF tag >= TagUser /\ tag > 255 THEN Keep(Err("BadParam"), <<>>)
        ELSE Out(translateLfsError(LfsErr(st.err)), <<"lfs_setattr">>,
                 fileDescriptors, st.vol,
                 IF st.err = "LFS_ERR_OK" THEN checkRootAcl(rootAcl, tag, val) ELSE rootAcl)

\* Mutant: a buffer of exactly the attribute's size is refused too
GetXAttrTooSmall_orEqual(tag, size) == tag < TagUser /\ size <= getAttributeSize(tag)

\* FileSystem.cpp:628-633  the buffer cannot hold the system attribute
GetXAttrTooSmall(tag, size) == tag < TagUser /\ size < getAttributeSize(tag)

\* Mutant: a buffer that is too small is a hard failure
TooSmallResult_badParam(tag) == Err("BadParam")

\* FileSystem.cpp:630  `return attrSize`
TooSmallResult(tag) == Ok(getAttributeSize(tag))

\* FileSystem.cpp:623-639  FileSystem::getxattr
getxattr(path0, tag, size) ==
    LET n == Node(OrEmpty(FS_CHECK_PATH(path0)))
        g == lfs_getattr(vol, n, Uint8(tag))
    IN  IF ~mounted THEN Keep(Err("NotMounted"), <<>>)
        ELSE IF GetXAttrTooSmall(tag, size) THEN Keep(TooSmallResult(tag), <<>>)
        ELSE IF tag >= TagUser /\ tag > 255 THEN Keep(Err("BadParam"), <<>>)
        ELSE IF g.err # "LFS_ERR_OK"
        THEN Keep(translateLfsError(LfsErr(g.err)), <<"lfs_getattr">>)
        ELSE [Keep(translateLfsError(LfsOk(g.attr.size)), <<"lfs_getattr">>)
              EXCEPT !.data = CopyOut(g.attr.val, g.attr.size, size)]

\* FileSystem.cpp:446-474  FileSystem::stat, with fillStat (FileSystem.cpp:38-49)
stat(path0, statNull) ==
    LET n     == Node(OrEmpty(FS_CHECK_PATH(path0)))
        attrs == vol[n].attrs
        st    == [name        |-> IF n = <<>> THEN <<>> ELSE n[Len(n)],
                  size        |-> Len(vol[n].data),
                  mtime       |-> EnumInto(attrs, TagModifiedTime, 0),
                  attr        |-> EnumInto(attrs, TagFileAttributes, 0),
                  dir         |-> vol[n].type = "dir",
                  readAccess  |-> EnumInto(attrs, TagReadAce, rootAcl.readAccess),
                  writeAccess |-> EnumInto(attrs, TagWriteAce, rootAcl.writeAccess),
                  compression |-> EnumInto(attrs, TagCompression, 0)]
    IN  IF ~mounted THEN Keep(Err("NotMounted"), <<>>)
        ELSE IF statNull THEN Keep(translateLfsError(LfsErr(Lookup(vol, n))), <<"lfs_stat">>)
        ELSE IF ~Exists(vol, n)
        THEN [Keep(translateLfsError(LfsErr(Lookup(vol, n))), <<"lfs_statcfg">>)
              EXCEPT !.stat = StatInit]
        ELSE [Keep(FS_OK, <<"lfs_statcfg">>) EXCEPT !.stat = checkStat(SetDirectory(st))]

\* what a directory method leaves behind: result, engine calls, the Stat
\* written and the FileDir objects
OutDir(res, calls, st, ds) == [res |-> res, calls |-> calls, stat |-> st, dirs |-> ds]

\* GET_FILEDIR(): the mount check, then the null handle
GetFileDirErr(dir) ==
    IF ~mounted THEN "NotMounted"
    ELSE IF dir = 0 THEN "InvalidHandle"
    ELSE "OK"

\* FileSystem.cpp:646  `new FileDir{}`: the null pointer (0) when the
\* allocator fails (nomem, an input of the call: nothing in FileSystem counts
\* the FileDir objects), else a handle that names no FileDir yet
NewFileDir(nomem) ==
    IF nomem THEN 0
    ELSE CHOOSE h \in DirHandles :
             ~dirs[h].open /\ \A g \in DirHandles : g < h => dirs[g].open

\* Mutant: the cursor is left where the engine opened it
opendirSeek_none(v, d) == d

\* FileSystem.cpp:657  lfs_dir_seek(&lfs, &d->dir, 2)
opendirSeek(v, d) == lfs_dir_seek(v, d, 2).dir

\* what opendir leaves behind: as OutDir, and the caller's DirHandle
\* variable, passed by reference
OutOpenDir(res, calls, ds, dir) ==
    [res |-> res, calls |-> calls, stat |-> NoStat, dirs |-> ds, dir |-> dir]

\* FileSystem.cpp:641-661  FileSystem::opendir, called with the handle
\* variable holding dir0 and with the allocator failing or not (nomem):
\* FS_OK and the new handle in the variable, or an error and the variable
\* as it was
opendir(path0, dir0, nomem) ==
    LET n == Node(OrEmpty(FS_CHECK_PATH(path0)))
        o == lfs_dir_open(vol, n)
        d == NewFileDir(nomem)
    IN  IF ~mounted THEN OutOpenDir(Err("NotMounted"), <<>>, dirs, dir0)
        ELSE IF d = 0 THEN OutOpenDir(Err("NoMem"), <<>>, dirs, dir0)
        ELSE IF o.err # "LFS_ERR_OK"
        THEN OutOpenDir(translateLfsError(LfsErr(o.err)), <<"lfs_dir_open">>, dirs, dir0)
        ELSE OutOpenDir(FS_OK, <<"lfs_dir_open", "lfs_dir_seek">>,
                        [dirs EXCEPT ![d] =
                            [open |-> TRUE, dir |-> opendirSeek(vol, o.dir), seen |-> <<>>]],
                        d)

\* FileSystem.cpp:663-670  FileSystem::rewinddir
rewinddir(dir) ==
    LET sk == lfs_dir_seek(vol, dirs[dir].dir, 2)
    IN  IF GetFileDirErr(dir) # "OK" THEN OutDir(Err(GetFileDirErr(dir)), <<>>, NoStat, dirs)
        ELSE OutDir(translateLfsError(LfsErr(sk.err)), <<"lfs_dir_seek">>, NoStat,
                    [dirs EXCEPT ![dir].dir = sk.dir,
                                 ![dir].seen = IF sk.err = "LFS_ERR_OK" THEN <<>> ELSE @])

\* the Stat readdir fills for the entry called name in directory n: the
\* cached root ACL, overridden by the entry's stored attributes, then fillStat
EntryStat(n, name) ==
    LET m     == n \o <<name>>
        real  == Exists(vol, m)
        attrs == IF real THEN vol[m].attrs ELSE NoAttrs
    IN  checkStat(SetDirectory(
                  [name        |-> name,
                   size        |-> IF real THEN Len(vol[m].data) ELSE 0,
                   mtime       |-> EnumInto(attrs, TagModifiedTime, 0),
                   attr        |-> EnumInto(attrs, TagFileAttributes, 0),
                   dir         |-> IF real THEN vol[m].type = "dir" ELSE TRUE,
                   readAccess  |-> EnumInto(attrs, TagReadAce, rootAcl.readAccess),
                   writeAccess |-> EnumInto(attrs, TagWriteAce, rootAcl.writeAccess),
                   compression |-> EnumInto(attrs, TagCompression, 0)]))

\* FileSystem.cpp:672-696  FileSystem::readdir
readdir(dir) ==
    LET d  == dirs[dir].dir
        r  == lfs_dir_readcfg(vol, d)
        st == [NoStat EXCEPT !.readAccess = rootAcl.readAccess,
                             !.writeAccess = rootAcl.writeAccess]
    IN  IF GetFileDirErr(dir) # "OK" THEN OutDir(Err(GetFileDirErr(dir)), <<>>, NoStat, dirs)
        ELSE IF r.val = 0 THEN OutDir(Err("NoMoreFiles"), <<"lfs_dir_readcfg">>, st, dirs)
        ELSE OutDir(FS_OK, <<"lfs_dir_readcfg">>, EntryStat(d.node, r.name),
                    [dirs EXCEPT ![dir].dir = r.dir, ![dir].seen = Append(@, r.name)])

\* FileSystem.cpp:698-705  FileSystem::closedir
closedir(dir) ==
    IF GetFileDirErr(dir) # "OK" THEN OutDir(Err(GetFileDirErr(dir)), <<>>, NoStat, dirs)
    ELSE OutDir(FS_OK, <<"lfs_dir_close">>, NoStat, [dirs EXCEPT ![dir] = NoDir])

\* Mutant: the fresh directory is stamped also when it existed already
MkdirStamps_exist(err) == err \in {"LFS_ERR_OK", "LFS_ERR_EXIST"}

\* FileSystem.cpp:715  `if(err == 0)`: the new directory gets a modification time
MkdirStamps(err) == err = "LFS_ERR_OK"

\* Mutant: the engine's EXIST is passed on
MkdirResult_strict(err) == translateLfsError(LfsErr(err))

\* FileSystem.cpp:720-723  EXIST counts as success
MkdirResult(err) == IF err = "LFS_ERR_EXIST" THEN FS_OK ELSE translateLfsError(LfsErr(err))

\* FileSystem.cpp:707-724  FileSystem::mkdir
mkdir(path0) ==
    LET n  == Node(OrEmpty(FS_CHECK_PATH(path0)))
        mk == lfs_mkdir(vol, n)
    IN  IF ~mounted THEN Keep(Err("NotMounted"), <<>>)
        ELSE IF isRootPath(path0) THEN Keep(Err("BadParam"), <<>>)
        ELSE IF MkdirStamps(mk.err)
        THEN Out(MkdirResult(mk.err), <<"lfs_mkdir", "lfs_setattr">>, fileDescriptors,
                 lfs_setattr(mk.vol, n, TagModifiedTime, Attr(now, 4)).vol, rootAcl)
        ELSE Out(MkdirResult(mk.err), <<"lfs_mkdir">>, fileDescriptors, mk.vol, rootAcl)

\* Mutant: only the old path is checked
RenameRoot_oldOnly(oldpath, newpath) == isRootPath(oldpath)

\* FileSystem.cpp:729  the root can be neither source nor target
RenameRoot(oldpath, newpath) == isRootPath(oldpath) \/ isRootPath(newpath)

\* FileSystem.cpp:726-735  FileSystem::rename
rename(oldpath, newpath) ==
    LET o    == Node(OrEmpty(FS_CHECK_PATH(oldpath)))
        n    == Node(OrEmpty(FS_CHECK_PATH(newpath)))
        rn   == lfs_rename(vol, o, n)
        gone == IF rn.err = "LFS_ERR_OK" /\ o # n
                THEN {m \in DOMAIN vol : IsPrefix(o, m) \/ m = n} ELSE {}
    IN  IF ~mounted THEN Keep(Err("NotMounted"), <<>>)
        ELSE IF RenameRoot(oldpath, newpath) THEN Keep(Err("BadParam"), <<>>)
        ELSE Out(translateLfsError(LfsErr(rn.err)), <<"lfs_rename">>,
                 Orphaned(fileDescriptors, gone), rn.vol, rootAcl)

\* Mutant: the read-only check is left out
RemoveReadOnly_never(attr) == FALSE

\* FileSystem.cpp:745-749  a read-only entry is not removed
RemoveReadOnly(attr) == HasReadOnly(attr)

\* FileSystem.cpp:737-753  FileSystem::remove
remove(path0) ==
    LET n    == Node(OrEmpty(FS_CHECK_PATH(path0)))
        attr == GetAttrInto(lfs_getattr(vol, n, TagFileAttributes), 0)
        rm   == lfs_remove(vol, n)
    IN  IF ~mounted THEN Keep(Err("NotMounted"), <<>>)
        ELSE IF isRootPath(path0) THEN Keep(Err("BadParam"), <<>>)
        ELSE IF RemoveReadOnly(attr) THEN Keep(Err("ReadOnly"), <<"lfs_getattr">>)
        ELSE Out(translateLfsError(LfsErr(rm.err)), <<"lfs_getattr", "lfs_remove">>,
                 Orphaned(fileDescriptors, IF rm.err = "LFS_ERR_OK" THEN {n} ELSE {}),
                 rm.vol, rootAcl)

(***************************************************************************)
(* Mount and format.  Their result also carries the mount state and the    *)
(* state of the partition.                                                 *)
(***************************************************************************)
MountOut(res, calls, m, acl, part, fmt, v, fds) ==
    [res |-> res, calls |-> calls, mounted |-> m, acl |-> acl,
     partition |-> part, formatted |-> fmt, vol |-> v, fds |-> fds]

\* FileSystem.cpp:140-156  tryMount on a partition holding v: [res, mounted, acl, calls]
tryMount(fmt, v, acl, fault) ==
    IF fault THEN [res |-> translateLfsError(LfsErr("LFS_ERR_IO_READ")),
                   mounted |-> FALSE, acl |-> acl, calls |-> <<"lfs_mount">>]
    ELSE IF ~fmt THEN [res |-> translateLfsError(LfsErr("LFS_ERR_CORRUPT")),
                       mounted |-> FALSE, acl |-> acl, calls |-> <<"lfs_mount">>]
    ELSE [res |-> FS_OK, mounted |-> TRUE,
          acl |-> [readAccess  |-> GetAttrInto(lfs_getattr(v, <<>>, TagReadAce),
                                               acl.readAccess),
                   writeAccess |-> GetAttrInto(lfs_getattr(v, <<>>, TagWriteAce),
                                               acl.writeAccess)],
          calls |-> <<"lfs_mount", "lfs_getattr", "lfs_getattr">>]

\* the engine forgets its open files (lfs = lfs_t{}); the table keeps its entries
Forgotten(fds) ==
    [i \in Slots |-> IF fds[i].open THEN [fds[i] EXCEPT !.file.orphan = TRUE] ELSE fds[i]]

\* Mutant: format always mounts the fresh volume
FormatRemounts_always(wasMounted) == TRUE

\* FileSystem.cpp:198  `return wasMounted ? tryMount() : FS_OK`
FormatRemounts(wasMounted) == wasMounted

\* FileSystem.cpp:176-199  FileSystem::format
format(m, part, fmt, v, acl, fds, fault, faultMount) ==
    LET unm == IF m THEN <<"lfs_unmount">> ELSE <<>>
        tm  == tryMount(TRUE, FreshVol, acl, faultMount)
    IN  IF part = "none"
        THEN MountOut(Err("NoPartition"), unm, FALSE, acl, part, fmt, v, fds)
        ELSE IF fault
        THEN MountOut(translateLfsError(LfsErr("LFS_ERR_IO_ERASE")), unm \o <<"lfs_format">>,
                      FALSE, acl, part, FALSE, v, Forgotten(fds))
        ELSE IF FormatRemounts(m)
        THEN MountOut(tm.res, unm \o <<"lfs_format">> \o tm.calls, tm.mounted, tm.acl,
                      "ok", TRUE, FreshVol, Forgotten(fds))
        ELSE MountOut(FS_OK, unm \o <<"lfs_format">>, FALSE, acl, "ok", TRUE, FreshVol,
                      Forgotten(fds))

\* Mutant: a failed mount is not followed by format and a second attempt
MountRetries_never(res) == FALSE

\* FileSystem.cpp:124-133  `if(res < 0)`: format, then try again
MountRetries(res) == IsErr(res)

\* FileSystem.cpp:114-138  FileSystem::mount
mount(fault1, faultFormat, fault2) ==
    LET t1 == tryMount(formatted, vol, rootAcl, fault1)
        fo == format(mounted, partition, formatted, vol, rootAcl, fileDescriptors,
                     faultFormat, fault2)
        t2 == tryMount(fo.formatted, fo.vol, rootAcl, fault2)
    IN  IF partition = "none"
        THEN MountOut(Err("NoPartition"), <<>>, mounted, rootAcl, partition, formatted,
                      vol, fileDescriptors)
        ELSE IF partition = "bad"
        THEN MountOut(Err("BadPartition"), <<>>, mounted, rootAcl, partition, formatted,
                      vol, fileDescriptors)
        ELSE IF ~MountRetries(t1.res)
        THEN MountOut(t1.res, t1.calls, t1.mounted, t1.acl, partition, formatted, vol,
                      IF mounted THEN Forgotten(fileDescriptors) ELSE fileDescriptors)
        ELSE MountOut(t2.res, t1.calls \o fo.calls \o t2.calls, t2.mounted, t2.acl,
                      fo.partition, fo.formatted, fo.vol, fo.fds)

(***************************************************************************)
(* Actions: one per public method.                                         *)
(***************************************************************************)
NoCall ==
    [op |-> "none", path |-> <<>>, path2 |-> <<>>, file |-> 0, flags |-> {},
     fault |-> FALSE, res |-> FS_OK, calls |-> <<>>, data |-> <<>>, stat |-> NoStat,
     assert |-> FALSE, faults |-> <<>>, info |-> NoInfo, engine |-> 0,
     tag |-> 0, dataNull |-> FALSE, val |-> 0, size |-> 0]

Call(op, path, path2, file, flags, fault, out) ==
    [op |-> op, path |-> path, path2 |-> path2, file |-> file, flags |-> flags,
     fault |-> fault, res |-> out.res, calls |-> out.calls, data |-> out.data,
     stat |-> out.stat, assert |-> FALSE, faults |-> <<>>, info |-> out.info,
     engine |-> 0, tag |-> 0, dataNull |-> FALSE, val |-> 0, size |-> 0]

\* the state after a file or path method
Apply(op, path, path2, file, flags, fault, out) ==
    /\ fileDescriptors' = out.fds
    /\ vol' = out.vol
    /\ rootAcl' = out.acl
    /\ last' = Call(op, path, path2, file, flags, fault, out)
    /\ UNCHANGED <<partition, formatted, mounted, now, dirs, profiler>>

\* the state after an attribute method: the call's tag, data (null or the
\* value val) and size are kept too
ApplyAttr(op, path, file, tag, dataNull, val, size, out) ==
    /\ fileDescriptors' = out.fds
    /\ vol' = out.vol
    /\ rootAcl' = out.acl
    /\ last' = [Call(op, path, <<>>, file, {}, FALSE, out)
                EXCEPT !.tag = tag, !.dataNull = dataNull, !.val = val, !.size = size]
    /\ UNCHANGED <<partition, formatted, mounted, now, dirs, profiler>>

\* the state after mount or format; faults: the engine calls that are made to
\* fail; assert: tryMount's assert(!mounted) failed
ApplyMount(op, faults, assert, out) ==
    /\ fileDescriptors' = out.fds
    /\ vol' = out.vol
    /\ rootAcl' = out.acl
    /\ mounted' = out.mounted
    /\ partition' = out.partition
    /\ formatted' = out.formatted
    /\ last' = [NoCall EXCEPT !.op = op, !.fault = faults[1], !.res = out.res,
                              !.calls = out.calls, !.assert = assert,
                              !.faults = faults]
    /\ UNCHANGED <<now, dirs, profiler>>

Mount(f1, ff, f2) ==
    /\ ApplyMount("mount", <<f1, ff, f2>>, partition = "ok" /\ mounted, mount(f1, ff, f2))
    /\ UNCHANGED rt

Format(fault, faultMount) ==
    /\ ApplyMount("format", <<fault, faultMount>>, FALSE,
                  format(mounted, partition, formatted, vol, rootAcl, fileDescriptors,
                         fault, faultMount))
    /\ UNCHANGED rt

\* fsGetTimeUTC() moves on
Tick ==
    /\ now < MaxTime
    /\ now' = now + 1
    /\ last' = [NoCall EXCEPT !.op = "tick"]
    /\ UNCHANGED <<partition, formatted, vol, mounted, fileDescriptors, rootAcl, rt, dirs, profiler>>

Open(path, flags, fault) ==
    /\ Apply("open", path, <<>>, 0, flags, fault, open(path, flags, fault))
    /\ UNCHANGED rt

Close(file, fault) ==
    /\ Apply("close", <<>>, <<>>, file, {}, fault, close(file, fault))
    /\ UNCHANGED rt

Eof(file) ==
    /\ Apply("eof", <<>>, <<>>, file, {}, FALSE, eof(file))
    /\ UNCHANGED rt

Tell(file) ==
    /\ Apply("tell", <<>>, <<>>, file, {}, FALSE, tell(file))
    /\ UNCHANGED rt

FTruncate(file, size) ==
    /\ Apply("ftruncate", <<>>, <<>>, file, {}, FALSE, ftruncate(file, size))
    /\ UNCHANGED rt

Flush(file, fault) ==
    /\ Apply("flush", <<>>, <<>>, file, {}, fault, flush(file, fault))
    /\ UNCHANGED rt

Read(file, size) ==
    /\ Apply("read", <<>>, <<>>, file, {}, FALSE, read(file, size))
    /\ UNCHANGED rt

Write(file, data) ==
    /\ Apply("write", <<>>, <<>>, file, {}, FALSE, write(file, data))
    /\ UNCHANGED rt

LSeek(file, offset, origin) ==
    /\ Apply("lseek", <<>>, <<>>, file, {}, FALSE, lseek(file, offset, origin))
    /\ UNCHANGED rt

FStat(file, statNull) ==
    /\ \E out \in fstatOutcomes(file, statNull) :
          Apply("fstat", <<>>, <<>>, file, {}, FALSE, out)
    /\ UNCHANGED rt

FSetXAttr(file, tag, dataNull, val, size) ==
    /\ ApplyAttr("fsetxattr", <<>>, file, tag, dataNull, val, size,
                 fsetxattr(file, tag, dataNull, val, size))
    /\ UNCHANGED rt

FGetXAttr(file, tag, size) ==
    /\ ApplyAttr("fgetxattr", <<>>, file, tag, FALSE, 0, size, fgetxattr(file, tag, size))
    /\ UNCHANGED rt

FEnumXAttr(file) ==
    /\ Apply("fenumxattr", <<>>, <<>>, file, {}, FALSE, fenumxattr(file))
    /\ UNCHANGED rt

FRemove(file) ==
    /\ Apply("fremove", <<>>, <<>>, file, {}, FALSE, fremove(file))
    /\ UNCHANGED rt

FGetExtents(file) ==
    /\ Apply("fgetextents", <<>>, <<>>, file, {}, FALSE, fgetextents(file))
    /\ UNCHANGED rt

SetXAttr(path, tag, dataNull, val, size) ==
    /\ ApplyAttr("setxattr", path, 0, tag, dataNull, val, size,
                 setxattr(path, tag, dataNull, val, size))
    /\ UNCHANGED rt

GetXAttr(path, tag, size) ==
    /\ ApplyAttr("getxattr", path, 0, tag, FALSE, 0, size, getxattr(path, tag, size))
    /\ UNCHANGED rt

Stat(path, statNull) ==
    /\ Apply("stat", path, <<>>, 0, {}, FALSE, stat(path, statNull))
    /\ UNCHANGED rt

GetInfo(usedBlocks, fault) ==
    /\ fileDescriptors' = getinfo(usedBlocks, fault).fds
    /\ vol' = getinfo(usedBlocks, fault).vol
    /\ rootAcl' = getinfo(usedBlocks, fault).acl
    /\ last' = [Call("getinfo", <<>>, <<>>, 0, {}, fault, getinfo(usedBlocks, fault))
                EXCEPT !.engine = usedBlocks]
    /\ UNCHANGED <<partition, formatted, mounted, now, rt, dirs, profiler>>

Mkdir(path) ==
    /\ Apply("mkdir", path, <<>>, 0, {}, FALSE, mkdir(path))
    /\ UNCHANGED rt

Rename(oldpath, newpath) ==
    /\ Apply("rename", oldpath, newpath, 0, {}, FALSE, rename(oldpath, newpath))
    /\ UNCHANGED rt

Remove(path) ==
    /\ Apply("remove", path, <<>>, 0, {}, FALSE, remove(path))
    /\ UNCHANGED rt

\* the state after a directory method on handle dir
ApplyDir(op, path, dir, out) ==
    /\ dirs' = out.dirs
    /\ last' = [NoCall EXCEPT !.op = op, !.path = path, !.file = dir, !.res = out.res,
                              !.calls = out.calls, !.stat = out.stat]
    /\ UNCHANGED <<partition, formatted, vol, mounted, fileDescriptors, rootAcl, now, rt,
                   profiler>>

\* a DirHandle a caller may pass: null, or one opendir gave and closedir has not freed
LiveHandle(dir) == IF dir = 0 THEN TRUE ELSE dirs[dir].open

\* opendir(path, dir) with dir a null handle: last.file is dir afterwards.
\* The allocator fails or not; the FileDir objects alive at a time are
\* capped at MaxOpenDir
OpenDir(path, nomem) ==
    /\ nomem \/ \E h \in DirHandles : ~dirs[h].open
    /\ ApplyDir("opendir", path, opendir(path, 0, nomem).dir, opendir(path, 0, nomem))

ReadDir(dir) ==
    /\ LiveHandle(dir)
    /\ ApplyDir("readdir", <<>>, dir, readdir(dir))

RewindDir(dir) ==
    /\ LiveHandle(dir)
    /\ ApplyDir("rewinddir", <<>>, dir, rewinddir(dir))

CloseDir(dir) ==
    /\ LiveHandle(dir)
    /\ ApplyDir("closedir", <<>>, dir, closedir(dir))

(***************************************************************************)
(* Initial state: a constructed, unmounted FileSystem on some partition.   *)
(***************************************************************************)
RtIdle == [pc |-> "idle", path |-> <<>>, data |-> <<>>, file |-> 0, old |-> 0,
           got |-> <<>>, size |-> 0, ok |-> TRUE]

InitWith(part, fmt) ==
    /\ partition = part
    /\ formatted = fmt
    /\ vol = FreshVol
    /\ mounted = FALSE
    /\ fileDescriptors = [i \in Slots |-> NoFd]
    /\ rootAcl = NoAcl
    /\ now = 1
    /\ last = NoCall
    /\ rt = RtIdle
    /\ dirs = [h \in DirHandles |-> NoDir]
    /\ profiler = FALSE

\* any partition: absent, of another type, blank or holding a littlefs image
Init ==
    \E part \in {"none", "bad", "ok"}, fmt \in BOOLEAN :
        /\ (part = "none" => ~fmt)
        /\ InitWith(part, fmt)

\* a littlefs partition holding an empty volume
InitFormatted == InitWith("ok", TRUE)

\* the call made by this step
Did(op) == last'.op = op

Handles == (LFS_HANDLE_MIN - 1)..(LFS_HANDLE_MAX + 1)

OpenSlots == Slots \ FreeSlots

(***************************************************************************)
(* SpecFd: the descriptor table under open and close.                      *)
(***************************************************************************)
PathA == <<"a">>

PathsFd == {PathA}

FlagsFd == {{"Read"}, {"Write", "Create"}, {"Read", "Bit6"}, {"Write", "Bit7"}}

NextFd ==
    \/ Mount(FALSE, FALSE, FALSE)
    \/ \E p \in PathsFd, fl \in FlagsFd, fault \in BOOLEAN : Open(p, fl, fault)
    \/ \E h \in Handles, fault \in BOOLEAN : Close(h, fault)
    \/ \E p \in PathsFd, v \in {0, ReadOnlyMask} : SetXAttr(p, TagFileAttributes, FALSE, v, 1)

SpecFd == InitFormatted /\ [][NextFd]_vars

\* the open of this step got past the checks that precede the slot scan
PassesOpenChecks ==
    /\ mounted
    /\ mapFileOpenFlags(last'.flags).rest = {}
    /\ ~OpenReadOnly(last'.flags,
                     GetAttrInto(lfs_getattr(vol, Node(OrEmpty(FS_CHECK_PATH(last'.path))),
                                             TagFileAttributes), 0))

\* the engine would open the path of this step's open
EngineOpens ==
    /\ ~last'.fault
    /\ lfs_file_opencfg(vol, Node(OrEmpty(FS_CHECK_PATH(last'.path))),
                        mapFileOpenFlags(last'.flags).oflags, FALSE).err = "LFS_ERR_OK"

\* C1: with all LFS_MAX_FDS descriptors open, an open fails with OutOfFileDescs
\* (without reaching the engine's open, whatever the path) and leaves every
\* slot as it was; a close of an open handle leaves a free slot, and with a
\* free slot an open of an openable path succeeds and returns a handle whose
\* slot was free.  This is checked from every state that opens and closes reach.
C1_Capacity ==
    [][/\ (Did("open") /\ FreeSlots = {})
          => /\ IsErr(last'.res)
             /\ fileDescriptors' = fileDescriptors
             /\ PassesOpenChecks
                => (last'.res = Err("OutOfFileDescs")
                    /\ \A i \in 1..Len(last'.calls) : last'.calls[i] # "lfs_file_opencfg")
       /\ (Did("close") /\ GetFdErr(last'.file) = "OK")
          => FreeSlots' # {}
       /\ (Did("open") /\ FreeSlots # {} /\ PassesOpenChecks /\ EngineOpens)
          => /\ ~IsErr(last'.res)
             /\ (last'.res.val - LFS_HANDLE_MIN) \in FreeSlots
             /\ fileDescriptors'[last'.res.val - LFS_HANDLE_MIN].open
             /\ Cardinality(OpenSlots') = Cardinality(OpenSlots) + 1
      ]_vars

\* the (capacity+1)-th open was refused
C1_Witness ==
    /\ last.op = "open"
    /\ last.res = Err("OutOfFileDescs")
    /\ Cardinality(OpenSlots) = LFS_MAX_FDS

\* C6: close on a valid open handle empties its slot whether or not the
\* engine's close failed; the engine's result is returned translated and the
\* handle is then not open.
C6_CloseReleases ==
    [][(Did("close") /\ GetFdErr(last'.file) = "OK")
       => /\ ~fileDescriptors'[last'.file - LFS_HANDLE_MIN].open
          /\ fileDescriptors'[last'.file - LFS_HANDLE_MIN] = NoFd
          /\ mounted'
          /\ last'.res = IF last'.fault
                         THEN translateLfsError(LfsErr("LFS_ERR_IO_WRITE"))
                         ELSE FS_OK
          /\ \A i \in Slots \ {last'.file - LFS_HANDLE_MIN} :
                fileDescriptors'[i] = fileDescriptors[i]
      ]_vars

\* a close whose engine call failed, the slot being free afterwards
C6_Witness ==
    /\ last.op = "close"
    /\ last.fault
    /\ IsErr(last.res)
    /\ last.calls # <<>>
    /\ last.file \in LFS_HANDLE_MIN..LFS_HANDLE_MAX
    /\ ~fileDescriptors[last.file - LFS_HANDLE_MIN].open

\* C8 as stated: on a mounted filesystem every open whose flags hold an
\* unrecognised bit returns NotSupported and leaves the table as it was.
C8_Original ==
    [][(Did("open") /\ mounted /\ last'.flags \ RecognisedFlags # {})
       => /\ last'.res = Err("NotSupported")
          /\ fileDescriptors' = fileDescriptors
      ]_vars

\* C8 amended: such an open never allocates a descriptor nor reaches the
\* engine's open; it returns NotSupported, unless the flags include Write and
\* the path is marked read-only: the read-only check comes first and the
\* open returns ReadOnly.
C8_UnknownFlags ==
    [][(Did("open") /\ mounted /\ last'.flags \ RecognisedFlags # {})
       => /\ fileDescriptors' = fileDescriptors
          /\ vol' = vol
          /\ \A i \in 1..Len(last'.calls) : last'.calls[i] # "lfs_file_opencfg"
          /\ last'.res =
                IF OpenReadOnly(last'.flags,
                                GetAttrInto(lfs_getattr(vol,
                                    Node(OrEmpty(FS_CHECK_PATH(last'.path))),
                                    TagFileAttributes), 0))
                THEN Err("ReadOnly") ELSE Err("NotSupported")
      ]_vars

\* an open with an unrecognised flag was refused with NotSupported while a
\* descriptor was open and another free
C8_Witness ==
    /\ last.op = "open"
    /\ last.flags \ RecognisedFlags # {}
    /\ last.res = Err("NotSupported")
    /\ FreeSlots # {}
    /\ OpenSlots # {}

(***************************************************************************)
(* SpecHandle: every handle-taking method, on any handle value, mounted or *)
(* not, with up to MaxOpenHandle descriptors open.                         *)
(***************************************************************************)
MaxOpenHandle == 1

NextHandle ==
    \/ Mount(FALSE, FALSE, FALSE)
    \/ \E fault \in BOOLEAN : Format(fault, FALSE)
    \/ \E fl \in {{"Read"}, {"Read", "Write", "Create"}} :
          /\ Cardinality(OpenSlots) < MaxOpenHandle
          /\ Open(PathA, fl, FALSE)
    \/ \E h \in Handles : Close(h, FALSE)
    \/ \E h \in Handles : Read(h, 1)
    \/ \E h \in Handles : Write(h, <<1>>)
    \/ \E h \in Handles : LSeek(h, 0, "Start")
    \/ \E h \in Handles : Tell(h)
    \/ \E h \in Handles : Eof(h)
    \/ \E h \in Handles : FTruncate(h, 0)
    \/ \E h \in Handles : Flush(h, FALSE)
    \/ \E h \in Handles : FStat(h, FALSE)
    \/ \E h \in Handles : FSetXAttr(h, TagFileAttributes, FALSE, 0, 1)
    \/ \E h \in Handles : FGetXAttr(h, TagModifiedTime, 4)
    \/ \E h \in Handles : FEnumXAttr(h)
    \/ \E h \in Handles : FRemove(h)
    \/ \E h \in Handles : FGetExtents(h)

SpecHandle == InitFormatted /\ [][NextHandle]_vars

HandleOps ==
    {"close", "read", "write", "lseek", "tell", "eof", "ftruncate", "flush", "fstat",
     "fsetxattr", "fgetxattr", "fenumxattr", "fremove", "fgetextents"}

\* C7: a handle-taking method called on an unmounted filesystem returns
\* NotMounted, else with a handle outside [LFS_HANDLE_MIN, LFS_HANDLE_MAX]
\* InvalidHandle, else with a handle whose slot is empty FileNotOpen; in these
\* cases it makes no engine call and changes nothing.
C7_HandleValidation ==
    [][(last'.op \in HandleOps)
       => LET h == last'.file
              inRange == h >= LFS_HANDLE_MIN /\ h <= LFS_HANDLE_MAX
              bad == ~mounted \/ ~inRange \/ ~fileDescriptors[h - LFS_HANDLE_MIN].open
          IN  /\ bad
                 => /\ last'.res = IF ~mounted THEN Err("NotMounted")
                                   ELSE IF ~inRange THEN Err("InvalidHandle")
                                   ELSE Err("FileNotOpen")
                    /\ last'.calls = <<>>
                    /\ UNCHANGED <<partition, formatted, vol, mounted, fileDescriptors,
                                   rootAcl, now, rt>>
              /\ ~bad => last'.res.code \notin {"NotMounted", "FileNotOpen"}
      ]_vars

\* a method was refused on an in-range handle whose slot is empty, while
\* another descriptor is open
C7_Witness ==
    /\ last.op \in HandleOps \ {"close"}
    /\ last.res = Err("FileNotOpen")
    /\ last.file > LFS_HANDLE_MIN
    /\ OpenSlots # {}

(***************************************************************************)
(* SpecAttr: the read-only attribute against open, write, truncate, flush, *)
(* remove and fremove, on a file and on the root.                          *)
(***************************************************************************)
PathRoot == <<"/">>

PathsAttr == {PathA, PathRoot}

HandlesAttr == LFS_HANDLE_MIN..(LFS_HANDLE_MIN + MaxOpenAttr)

NextAttr ==
    \/ Mount(FALSE, FALSE, FALSE)
    \/ \E p \in PathsAttr, fl \in {{"Read"}, {"Write", "Create"}, {"Write", "Truncate"}} :
          /\ Cardinality(OpenSlots) < MaxOpenAttr
          /\ Open(p, fl, FALSE)
    \/ \E h \in HandlesAttr : Close(h, FALSE)
    \/ \E p \in PathsAttr, v \in {0, ReadOnlyMask} :
          SetXAttr(p, TagFileAttributes, FALSE, v, 1)
    \/ \E h \in HandlesAttr, v \in {0, ReadOnlyMask} :
          FSetXAttr(h, TagFileAttributes, FALSE, v, 1)
    \/ \E h \in HandlesAttr : FSetXAttr(h, TagModifiedTime, FALSE, MaxTime, 4)
    \/ \E h \in HandlesAttr : Write(h, <<1>>)
    \/ \E h \in HandlesAttr : FTruncate(h, 0)
    \/ \E h \in HandlesAttr : Flush(h, FALSE)
    \/ \E p \in PathsAttr : Remove(p)
    \/ \E h \in HandlesAttr : FRemove(h)

SpecAttr == InitFormatted /\ [][NextAttr]_vars

\* the FileAttributes attribute stored for node n has the ReadOnly bit
NodeReadOnly(n) ==
    /\ Exists(vol, n)
    /\ TagFileAttributes \in DOMAIN vol[n].attrs
    /\ HasReadOnly(vol[n].attrs[TagFileAttributes].val)

\* the node that the path argument of this step's call names
StepNode == Node(OrEmpty(FS_CHECK_PATH(last'.path)))

\* the descriptor that the handle argument of this step's call names
StepFd == fileDescriptors[last'.file - LFS_HANDLE_MIN]

StepFdOpen ==
    /\ mounted
    /\ last'.file \in LFS_HANDLE_MIN..LFS_HANDLE_MAX
    /\ StepFd.open

MutatingCalls ==
    {"lfs_file_opencfg", "lfs_remove", "lfs_rename", "lfs_mkdir", "lfs_setattr",
     "lfs_removeattr", "lfs_file_setattr", "lfs_file_removeattr", "lfs_file_write",
     "lfs_file_truncate", "lfs_file_sync", "lfs_file_close", "lfs_format"}

NoMutatingCall == \A i \in 1..Len(last'.calls) : last'.calls[i] \notin MutatingCalls

\* what C3 promises of a step on a read-only entry
RefusedReadOnly ==
    /\ last'.res = Err("ReadOnly")
    /\ NoMutatingCall
    /\ fileDescriptors' = fileDescriptors
    /\ vol' = vol

\* C3 as stated: for every path marked read-only, open with Write,
\* remove(path) and fremove on a handle of that file return ReadOnly, issue no
\* mutating engine call and allocate no descriptor.
C3_Original ==
    [][/\ (Did("open") /\ mounted /\ "Write" \in last'.flags /\ NodeReadOnly(StepNode))
          => RefusedReadOnly
       /\ (Did("remove") /\ mounted /\ NodeReadOnly(StepNode))
          => RefusedReadOnly
       /\ (Did("fremove") /\ StepFdOpen /\ ~StepFd.file.orphan
           /\ NodeReadOnly(StepFd.file.node))
          => RefusedReadOnly
      ]_vars

\* C3 amended: the same, for remove only on a path other than the root;
\* remove of the root returns BadParam whether or not the root is marked
\* read-only (again without any engine call).
C3_ReadOnlyRefused ==
    [][/\ (Did("open") /\ mounted /\ "Write" \in last'.flags /\ NodeReadOnly(StepNode))
          => RefusedReadOnly
       /\ (Did("remove") /\ mounted /\ NodeReadOnly(StepNode))
          => IF StepNode # <<>> THEN RefusedReadOnly
             ELSE /\ last'.res = Err("BadParam")
                  /\ last'.calls = <<>>
                  /\ fileDescriptors' = fileDescriptors
                  /\ vol' = vol
       /\ (Did("fremove") /\ StepFdOpen /\ ~StepFd.file.orphan
           /\ NodeReadOnly(StepFd.file.node))
          => RefusedReadOnly
      ]_vars

\* remove of a read-only file was refused, the file still being there
C3_Witness ==
    /\ last.op = "remove"
    /\ last.res = Err("ReadOnly")
    /\ Exists(vol, Node(PathA))
    /\ NodeReadOnly(Node(PathA))
    /\ OpenSlots # {}

\* C4: a write or ftruncate through an open descriptor of a file that is
\* marked read-only at that moment fails and issues no engine write.
C4_WriteToReadOnly ==
    [][(last'.op \in {"write", "ftruncate"} /\ StepFdOpen /\ ~StepFd.file.orphan
        /\ StepFd.file.type = "file" /\ NodeReadOnly(StepFd.file.node))
       => /\ IsErr(last'.res)
          /\ \A i \in 1..Len(last'.calls) :
                last'.calls[i] \notin {"lfs_file_write", "lfs_file_truncate"}
      ]_vars

\* C5: on a descriptor opened without the Write flag, write, ftruncate, flush
\* and fsetxattr return ReadOnly, make no engine call and leave the
\* descriptor (mtime and flags included) and the volume as they were.
C5_NoWriteFlag ==
    [][(last'.op \in {"write", "ftruncate", "flush", "fsetxattr"} /\ StepFdOpen
        /\ "LFS_O_WRONLY" \notin StepFd.file.oflags)
       => /\ last'.res = Err("ReadOnly")
          /\ last'.calls = <<>>
          /\ fileDescriptors' = fileDescriptors
          /\ vol' = vol
          /\ rootAcl' = rootAcl
      ]_vars

\* fsetxattr(ModifiedTime) was refused on a descriptor opened for reading
C5_Witness ==
    /\ last.op = "fsetxattr"
    /\ last.res = Err("ReadOnly")
    /\ mounted
    /\ last.file \in LFS_HANDLE_MIN..LFS_HANDLE_MAX
    /\ fileDescriptors[last.file - LFS_HANDLE_MIN].open
    /\ fileDescriptors[last.file - LFS_HANDLE_MIN].flags = {}
    /\ fileDescriptors[last.file - LFS_HANDLE_MIN].mtime = 0

(***************************************************************************)
(* SpecDir: mkdir, rename and remove on the root and on other paths, with  *)
(* the clock moving.                                                       *)
(***************************************************************************)
PathB == <<"b">>

PathAB == <<"a", "/", "b">>

PathSlashA == <<"/", "a">>

\* the spellings of the root: nullptr, "" and "/"
RootPaths == {NullPath, <<>>, PathRoot}

PathsDir == RootPaths \cup {PathA, PathSlashA, PathB, PathAB}

\* the renames tried: from and to each spelling of the root, and between entries
RenamesDir ==
    ({PathA} \X RootPaths) \cup (RootPaths \X {PathA}) \cup {<<PathRoot, PathRoot>>}
    \cup {<<PathA, PathB>>, <<PathB, PathSlashA>>}

NextDir ==
    \/ (~mounted /\ Mount(FALSE, FALSE, FALSE))
    \/ Tick
    \/ \E p \in PathsDir : Mkdir(p)
    \/ \E r \in RenamesDir : Rename(r[1], r[2])
    \/ \E p \in PathsDir : Remove(p)
    \/ (Cardinality(OpenSlots) < MaxOpenAttr /\ Open(PathB, {"Write", "Create"}, FALSE))
    \/ \E h \in HandlesAttr : Close(h, FALSE)

SpecDir == InitFormatted /\ [][NextDir]_vars

\* C9: on a mounted filesystem mkdir(root), remove(root) and rename from or
\* to the root return BadParam, make no engine call and change nothing.
C9_RootProtected ==
    [][(mounted /\ \/ (last'.op \in {"mkdir", "remove"} /\ last'.path \in RootPaths)
                   \/ (Did("rename") /\ (last'.path \in RootPaths
                                         \/ last'.path2 \in RootPaths)))
       => /\ last'.res = Err("BadParam")
          /\ last'.calls = <<>>
          /\ UNCHANGED <<partition, formatted, vol, mounted, fileDescriptors, rootAcl>>
      ]_vars

\* a rename onto the root was refused while an entry of that name existed
C9_Witness ==
    /\ last.op = "rename"
    /\ last.path \notin RootPaths
    /\ last.path2 \in RootPaths
    /\ Exists(vol, Node(last.path))
    /\ last.res = Err("BadParam")
    /\ mounted

\* the stored modification time of node n (0 when it has none)
StoredMtime(v, n) ==
    IF Exists(v, n) /\ TagModifiedTime \in DOMAIN v[n].attrs
    THEN v[n].attrs[TagModifiedTime].val ELSE 0

\* C10: mkdir never returns Exists; mkdir of a non-root path that exists or
\* whose parent directory exists returns FS_OK; a mkdir that follows a
\* successful mkdir
\* of the same path, and any mkdir of a path that names a directory already,
\* returns FS_OK and leaves the volume (the directory, its stored
\* modification time) as it was, also when the clock has moved on.
C10_MkdirIdempotent ==
    [][Did("mkdir")
       => /\ last'.res # Err("Exists")
          /\ (mounted /\ last'.path \notin RootPaths
              /\ (Exists(vol, StepNode) \/ Creatable(vol, StepNode)))
             => last'.res = FS_OK
          /\ (last.op = "mkdir" /\ last.res = FS_OK /\ last'.path = last.path
              /\ ~isRootPath(last.path))
             => (last'.res = FS_OK /\ vol' = vol)
          /\ (mounted /\ last'.path \notin RootPaths /\ Exists(vol, StepNode)
              /\ vol[StepNode].type = "dir")
             => /\ last'.res = FS_OK
                /\ vol' = vol
                /\ StoredMtime(vol', StepNode) = StoredMtime(vol, StepNode)
      ]_vars

\* a second mkdir of an existing directory succeeded at a later time than
\* the one stored for the directory
C10_Witness ==
    /\ last.op = "mkdir"
    /\ last.res = FS_OK
    /\ last.calls = <<"lfs_mkdir">>
    /\ Exists(vol, Node(last.path))
    /\ vol[Node(last.path)].type = "dir"
    /\ StoredMtime(vol, Node(last.path)) < now

(***************************************************************************)
(* SpecRT: a client that writes a file, closes it, opens it again and      *)
(* reads it back, any number of times.  rt holds the client's position,    *)
(* what it wrote (data), the length of the file before it opened it (old), *)
(* what it read back (got), the size fstat reported (size) and whether     *)
(* every call returned what a successful call returns (ok).                *)
(***************************************************************************)
Bytes == {1, 2}

DataRT == UNION {[1..k -> Bytes] : k \in 0..MaxFileSize}

PathsRT == {PathA, PathB}

\* the length of the file at path p, 0 when there is none
SizeOf(v, p) == IF Exists(v, Node(p)) THEN Len(v[Node(p)].data) ELSE 0

\* open(path, Create|Write)
RtOpen(path, data) ==
    /\ rt.pc = "idle"
    /\ LET out == open(path, {"Create", "Write"}, FALSE)
       IN  /\ Apply("open", path, <<>>, 0, {"Create", "Write"}, FALSE, out)
           /\ rt' = IF IsErr(out.res) THEN rt
                    ELSE [RtIdle EXCEPT !.pc = "write", !.path = path, !.data = data,
                                        !.file = out.res.val, !.old = SizeOf(vol, path)]

\* write the N bytes; the descriptor was just opened, its offset is 0
RtWrite ==
    /\ rt.pc = "write"
    /\ LET out == write(rt.file, rt.data)
       IN  /\ Apply("write", <<>>, <<>>, rt.file, {}, FALSE, out)
           /\ rt' = [rt EXCEPT !.pc = "flush",
                               !.ok = @ /\ FdOf(rt.file).file.pos = 0
                                        /\ out.res = Ok(Len(rt.data))]

RtFlush ==
    /\ rt.pc = "flush"
    /\ LET out == flush(rt.file, FALSE)
       IN  /\ Apply("flush", <<>>, <<>>, rt.file, {}, FALSE, out)
           /\ rt' = [rt EXCEPT !.pc = "close", !.ok = @ /\ out.res = FS_OK]

RtClose ==
    /\ rt.pc = "close"
    /\ LET out == close(rt.file, FALSE)
       IN  /\ Apply("close", <<>>, <<>>, rt.file, {}, FALSE, out)
           /\ rt' = [rt EXCEPT !.pc = "reopen", !.ok = @ /\ out.res = FS_OK]

\* open(path, Read)
RtReopen ==
    /\ rt.pc = "reopen"
    /\ LET out == open(rt.path, {"Read"}, FALSE)
       IN  /\ Apply("open", rt.path, <<>>, 0, {"Read"}, FALSE, out)
           /\ rt' = [rt EXCEPT !.pc = "read", !.ok = @ /\ ~IsErr(out.res),
                               !.file = out.res.val]

\* read N bytes
RtRead ==
    /\ rt.pc = "read"
    /\ LET out == read(rt.file, Len(rt.data))
       IN  /\ Apply("read", <<>>, <<>>, rt.file, {}, FALSE, out)
           /\ rt' = [rt EXCEPT !.pc = "stat", !.got = out.data,
                               !.ok = @ /\ out.res = Ok(Len(rt.data))]

\* the size that fstat reports
RtStat ==
    /\ rt.pc = "stat"
    /\ \E out \in fstatOutcomes(rt.file, FALSE) :
          /\ Apply("fstat", <<>>, <<>>, rt.file, {}, FALSE, out)
          /\ rt' = [rt EXCEPT !.pc = "done", !.size = out.stat.size,
                              !.ok = @ /\ out.res = FS_OK]

\* the client closes the file and may start over
RtEnd ==
    /\ rt.pc = "done"
    /\ Apply("close", <<>>, <<>>, rt.file, {}, FALSE, close(rt.file, FALSE))
    /\ rt' = RtIdle

NextRT ==
    \/ (~mounted /\ Mount(FALSE, FALSE, FALSE))
    \/ \E p \in PathsRT, d \in DataRT : RtOpen(p, d)
    \/ RtWrite
    \/ RtFlush
    \/ RtClose
    \/ RtReopen
    \/ RtRead
    \/ RtStat
    \/ RtEnd

SpecRT == InitFormatted /\ [][NextRT]_vars

\* C2 as stated: after the round trip the bytes read are the bytes written
\* and the reported size is N.
C2_Original ==
    rt.pc = "done" => (rt.ok /\ rt.got = rt.data /\ rt.size = Len(rt.data))

\* C2 amended: every call of the round trip succeeds and the N bytes read are
\* the N bytes written; the reported size is N when the path held no file or
\* a file of at most N bytes before, and the earlier size when the file was
\* longer (open with Create|Write does not truncate).  The bytes past N are
\* the earlier ones.
C2_RoundTrip ==
    rt.pc = "done"
    => /\ rt.ok
       /\ rt.got = rt.data
       /\ rt.size = (IF rt.old > Len(rt.data) THEN rt.old ELSE Len(rt.data))
       /\ rt.size = SizeOf(vol, rt.path)
       /\ SubSeq(vol[Node(rt.path)].data, 1, Len(rt.data)) = rt.data

\* a round trip of a non-empty sequence over a longer file has finished
C2_Witness ==
    /\ rt.pc = "done"
    /\ rt.data # <<>>
    /\ rt.old > Len(rt.data)
    /\ rt.got = rt.data
    /\ rt.size = rt.old

(***************************************************************************)
(* SpecMount: mount, format and what they leave behind, on every kind of   *)
(* partition and with engine failures.                                     *)
(***************************************************************************)
AceValues == {1, 2}

NextMount ==
    \/ \E f1 \in BOOLEAN, ff \in BOOLEAN, f2 \in BOOLEAN : (~mounted /\ Mount(f1, ff, f2))
    \/ \E f \in BOOLEAN, fm \in BOOLEAN : Format(f, fm)
    \/ \E tag \in {TagReadAce, TagWriteAce}, v \in AceValues :
          SetXAttr(PathRoot, tag, FALSE, v, 1)
    \/ Mkdir(PathA)
    \/ \E used \in 0..PartitionBlocks, f \in BOOLEAN : GetInfo(used, f)
    \/ Stat(PathRoot, FALSE)

SpecMount == Init /\ [][NextMount]_vars

\* how often the engine call x was made
CountOf(calls, x) == Cardinality({i \in 1..Len(calls) : calls[i] = x})

\* C11: mount() on an unmounted filesystem with a littlefs partition: when
\* the first lfs_mount fails the calls are lfs_mount, lfs_format, lfs_mount
\* (one format, one further attempt), when it succeeds no format is made;
\* mount() returns FS_OK exactly when the filesystem is mounted afterwards;
\* when the second attempt fails too the filesystem is unmounted and the
\* second attempt's translated error is returned.
C11_MountRecovery ==
    [][(Did("mount") /\ ~mounted)
       => LET c           == last'.calls
              firstFails  == last'.faults[1] \/ ~formatted
              secondFails == last'.faults[2] \/ last'.faults[3]
          IN  /\ (last'.res = FS_OK) <=> mounted'
              /\ partition = "ok"
                 => /\ c[1] = "lfs_mount"
                    /\ firstFails
                       => /\ CountOf(c, "lfs_format") = 1
                          /\ CountOf(c, "lfs_mount") = 2
                          /\ c[2] = "lfs_format" /\ c[3] = "lfs_mount"
                    /\ ~firstFails
                       => /\ CountOf(c, "lfs_format") = 0
                          /\ CountOf(c, "lfs_mount") = 1
                          /\ vol' = vol
                    /\ (firstFails /\ secondFails)
                       => /\ ~mounted'
                          /\ last'.res = translateLfsError(LfsErr(
                                IF last'.faults[3] THEN "LFS_ERR_IO_READ"
                                ELSE "LFS_ERR_CORRUPT"))
      ]_vars

\* a mount whose first attempt failed has formatted the volume and mounted
\* it at the second attempt
C11_Witness ==
    /\ last.op = "mount"
    /\ last.faults[1]
    /\ last.res = FS_OK
    /\ CountOf(last.calls, "lfs_format") = 1
    /\ mounted
    /\ vol = FreshVol

\* C12: after a successful format() the filesystem is mounted exactly when
\* it was mounted before: on an unmounted filesystem format makes the one
\* engine call lfs_format, returns FS_OK (unless there is no partition or
\* lfs_format fails) and leaves it unmounted; on a mounted one it unmounts,
\* formats and mounts again.
C12_FormatKeepsMountState ==
    [][Did("format")
       => /\ last'.res = FS_OK
             => /\ mounted' <=> mounted
                /\ formatted' /\ vol' = FreshVol
                /\ ~mounted => last'.calls = <<"lfs_format">>
                /\ mounted => /\ SubSeq(last'.calls, 1, 3)
                                    = <<"lfs_unmount", "lfs_format", "lfs_mount">>
                              /\ CountOf(last'.calls, "lfs_format") = 1
                              /\ CountOf(last'.calls, "lfs_mount") = 1
          /\ (~mounted /\ partition # "none" /\ ~last'.faults[1])
             => (last'.res = FS_OK /\ ~mounted')
      ]_vars

\* format succeeded on an unmounted filesystem and left it unmounted
C12_Witness ==
    /\ last.op = "format"
    /\ last.res = FS_OK
    /\ last.calls = <<"lfs_format">>
    /\ ~mounted
    /\ formatted

AceTags == {TagReadAce, TagWriteAce}

PathsAcl == {PathRoot, <<>>, PathA}

NextAcl ==
    \/ (~mounted /\ Mount(FALSE, FALSE, FALSE))
    \/ \E p \in PathsAcl, tag \in AceTags, v \in AceValues : SetXAttr(p, tag, FALSE, v, 1)
    \/ \E p \in {PathRoot, PathA} :
          /\ Cardinality(OpenSlots) < MaxOpenAttr
          /\ Open(p, {"Write", "Create"}, FALSE)
    \/ \E h \in HandlesAttr : Close(h, FALSE)
    \/ \E h \in HandlesAttr, v \in AceValues : FSetXAttr(h, TagWriteAce, FALSE, v, 1)
    \/ \E p \in PathsAcl, tag \in AceTags : GetXAttr(p, tag, 1)
    \/ \E p \in PathsAcl : Stat(p, FALSE)

SpecAcl == InitFormatted /\ [][NextAcl]_vars

\* the field of an ACL or of a Stat that tag names
AceOf(r, tag) == IF tag = TagReadAce THEN r.readAccess ELSE r.writeAccess

\* the last call was a successful setxattr of an ACL tag on the root path
LastSetRootAce ==
    /\ last.op = "setxattr"
    /\ isRootPath(last.path)
    /\ last.tag \in AceTags
    /\ ~last.dataNull
    /\ last.res = FS_OK

C15_RootAclFrame ==
    [][(rootAcl' # rootAcl)
       => \/ (last'.op \in {"mount", "format"} /\ CountOf(last'.calls, "lfs_mount") > 0)
          \/ /\ Did("setxattr") /\ isRootPath(last'.path)
             /\ last'.tag \in AceTags /\ last'.res = FS_OK
          \/ /\ Did("fsetxattr") /\ StepFdOpen /\ StepFd.file.node = <<>>
             /\ last'.tag \in AceTags /\ last'.res = FS_OK
      ]_vars

\* the last call mounted the volume: a mount, or a format that mounted again
LastMounted ==
    /\ last.op \in {"mount", "format"}
    /\ last.res = FS_OK
    /\ CountOf(last.calls, "lfs_mount") > 0
    /\ mounted

\* the ACL that the attributes stored on the root directory of v hold, with
\* the value of a newly constructed ACL where none is stored
StoredRootAcl(v) ==
    [readAccess  |-> EnumInto(v[<<>>].attrs, TagReadAce, NoAcl.readAccess),
     writeAccess |-> EnumInto(v[<<>>].attrs, TagWriteAce, NoAcl.writeAccess)]

\* C16: after every successful mount (that of format and of mount's recovery
\* included) the cached root ACL is the one stored on the root directory of
\* the volume just mounted, nothing of the earlier cache remains, and a stat
\* of the root that follows reports that ACL.
C16_AclLoadedOnMount ==
    [][/\ LastMounted' => rootAcl' = StoredRootAcl(vol')
       /\ (LastMounted /\ Did("stat") /\ isRootPath(last'.path))
          => /\ last'.stat.readAccess = StoredRootAcl(vol).readAccess
             /\ last'.stat.writeAccess = StoredRootAcl(vol).writeAccess
      ]_vars

(***************************************************************************)
(* SpecReadDir: directories are filled and emptied while no directory      *)
(* handle is open, then walked through up to MaxOpenDir handles; the       *)
(* contents of a directory stay as they are while a handle is open.        *)
(***************************************************************************)
NoDirOpen == \A h \in DirHandles : ~dirs[h].open

PathsReadDir == {PathA, PathB, PathAB}

NextReadDir ==
    \/ (~mounted /\ Mount(FALSE, FALSE, FALSE))
    \/ (NoDirOpen /\ Format(FALSE, FALSE))
    \/ \E p \in PathsReadDir : (NoDirOpen /\ Mkdir(p))
    \/ (NoDirOpen /\ Cardinality(OpenSlots) < 1 /\ Open(PathB, {"Create", "Write"}, FALSE))
    \/ \E h \in {LFS_HANDLE_MIN} : Close(h, FALSE)
    \/ \E p \in PathsReadDir : (NoDirOpen /\ Remove(p))
    \/ \E p \in RootPaths \cup {PathA, PathB}, nomem \in BOOLEAN : OpenDir(p, nomem)
    \/ \E h \in 0..MaxOpenDir : ReadDir(h)
    \/ \E h \in 0..MaxOpenDir : RewindDir(h)
    \/ \E h \in 0..MaxOpenDir : CloseDir(h)

SpecReadDir == Init /\ [][NextReadDir]_vars

Range(q) == {q[i] : i \in DOMAIN q}

\* C17: on a mounted volume, a readdir through an open handle whose cursor
\* was placed by opendir or rewinddir and has since returned fewer names
\* than the directory has entries returns FS_OK with the name of an entry
\* not returned yet, never "." or ".."; once every entry has been returned
\* it returns NoMoreFiles; on a freshly formatted volume the first readdir
\* of the root returns NoMoreFiles.
C17_ReadDir ==
    [][\A h \in DirHandles :
          (Did("readdir") /\ last'.file = h /\ dirs[h].open /\ mounted) =>
              LET names == ChildNames(vol, dirs[h].dir.node)
                  seen  == dirs[h].seen
              IN  /\ Len(seen) < Cardinality(names) =>
                        /\ last'.res = FS_OK
                        /\ last'.stat.name \in names \ Range(seen)
                        /\ last'.stat.name \notin {NameDot, NameDotDot}
                        /\ dirs'[h].seen = Append(seen, last'.stat.name)
                  /\ Len(seen) >= Cardinality(names) =>
                        /\ last'.res = Err("NoMoreFiles")
                        /\ dirs'[h].seen = seen
                  /\ (vol = FreshVol /\ dirs[h].dir.node = <<>> /\ seen = <<>>) =>
                        last'.res = Err("NoMoreFiles")
      ]_vars

\* a directory of two entries was walked to its end, after a rewinddir or
\* an opendir: both names were returned and readdir then said NoMoreFiles
C17_Witness ==
    /\ last.op = "readdir"
    /\ last.res = Err("NoMoreFiles")
    /\ last.file \in DirHandles
    /\ dirs[last.file].open
    /\ Len(dirs[last.file].seen) = 2
    /\ Range(dirs[last.file].seen) = ChildNames(vol, dirs[last.file].dir.node)

(***************************************************************************)
(* SpecXAttr: attributes are written and deleted, by path and through a    *)
(* descriptor, under system and user tags and with every size up to        *)
(* MaxAttrSize.                                                            *)
(***************************************************************************)
MaxAttrSize == 2

\* a user tag above 255: getUserAttributeTag(240 + FileAttributes), whose
\* low byte is the system tag FileAttributes
TagUserWide == 256 + TagFileAttributes

TagsX == {TagFileAttributes, TagUser, TagUserWide}

PathsX == {PathA}

HandlesX == {LFS_HANDLE_MIN}

NextXAttr ==
    \/ (~mounted /\ Mount(FALSE, FALSE, FALSE))
    \/ \E fl \in {{"Create", "Write"}, {"Read"}} :
          (Cardinality(OpenSlots) < 1 /\ Open(PathA, fl, FALSE))
    \/ \E h \in HandlesX : Close(h, FALSE)
    \/ \E p \in PathsX, t \in TagsX, null \in BOOLEAN, sz \in 0..MaxAttrSize :
          SetXAttr(p, t, null, 1, sz)
    \/ \E h \in HandlesX, t \in TagsX, null \in BOOLEAN, sz \in 0..MaxAttrSize :
          FSetXAttr(h, t, null, 1, sz)
    \/ \E p \in PathsX, sz \in 0..MaxAttrSize : GetXAttr(p, TagFileAttributes, sz)
    \/ \E h \in HandlesX : FGetXAttr(h, TagFileAttributes, MaxAttrSize)
    \/ \E h \in HandlesX : FStat(h, FALSE)

SpecXAttr == InitFormatted /\ [][NextXAttr]_vars

\* this step is a setxattr or fsetxattr call that gets past the method's
\* entry checks: mounted, and for fsetxattr a descriptor open for writing
SetsAttr ==
    /\ mounted
    /\ \/ Did("setxattr")
       \/ /\ Did("fsetxattr")
          /\ last'.file \in LFS_HANDLE_MIN..LFS_HANDLE_MAX
          /\ FdOf(last'.file).open
          /\ "Write" \in FdOf(last'.file).flags

\* the step made no engine call and left the volume as it was
NoEngineWrite == last'.calls = <<>> /\ vol' = vol

\* C18: a write (data not null) of a system tag with a size other than the
\* tag's fixed size, through setxattr or fsetxattr, returns BadParam and
\* issues no engine attribute write.
C18_WrongSize ==
    [][(/\ SetsAttr
        /\ ~last'.dataNull
        /\ last'.tag < TagUser
        /\ last'.size # getAttributeSize(last'.tag))
       => (last'.res = Err("BadParam") /\ NoEngineWrite)
      ]_vars

\* C19: a write (data not null) of a user tag above 255, through setxattr
\* or fsetxattr, returns BadParam and issues no engine attribute write, so
\* no attribute appears under the tag's low byte.
C19_TagTooBig ==
    [][(/\ SetsAttr
        /\ ~last'.dataNull
        /\ last'.tag >= TagUser
        /\ last'.tag > 255)
       => (last'.res = Err("BadParam") /\ NoEngineWrite)
      ]_vars

\* the engine's remove-attribute call was made in this step
RemovesAttr == \E i \in DOMAIN last'.calls :
                  last'.calls[i] \in {"lfs_removeattr", "lfs_file_removeattr"}

\* C20: a delete (null data) of a system tag through setxattr or fsetxattr
\* fails with NotSupported without any engine call; the engine's
\* remove-attribute call is made only for tags >= User; and no call takes a
\* system attribute away from a file that stays in place.
C20_ReservedKept ==
    [][/\ (SetsAttr /\ last'.dataNull /\ last'.tag < TagUser)
          => (last'.res = Err("NotSupported") /\ NoEngineWrite)
       /\ RemovesAttr => last'.tag >= TagUser
       /\ (last'.op \in {"setxattr", "fsetxattr", "getxattr", "open", "close"}) =>
             \A n \in (DOMAIN vol) \cap (DOMAIN vol') :
                 \A t \in DOMAIN vol[n].attrs :
                     (vol[n].type = "file" /\ t < TagUser) => t \in DOMAIN vol'[n].attrs
      ]_vars

(***************************************************************************)
(* SpecTime: the modification time of one file, cached in its descriptor   *)
(* by write and fsetxattr and stored by flush and close, as the clock      *)
(* moves on.                                                               *)
(***************************************************************************)
HandlesTime == {LFS_HANDLE_MIN}

NextTime ==
    \/ (~mounted /\ Mount(FALSE, FALSE, FALSE))
    \/ Tick
    \/ \E fl \in {{"Read"}, {"Write", "Create"}} :
          (Cardinality(OpenSlots) < 1 /\ Open(PathA, fl, FALSE))
    \/ \E h \in HandlesTime, fault \in BOOLEAN : Close(h, fault)
    \/ \E h \in HandlesTime, fault \in BOOLEAN : Flush(h, fault)
    \/ \E h \in HandlesTime : Write(h, <<1>>)
    \/ \E h \in HandlesTime : FTruncate(h, 0)
    \/ \E h \in HandlesTime : Read(h, 1)
    \/ \E h \in HandlesTime, t \in 0..MaxTime : FSetXAttr(h, TagModifiedTime, FALSE, t, 4)
    \/ \E h \in HandlesTime : FGetXAttr(h, TagModifiedTime, 4)
    \/ \E h \in HandlesTime : FStat(h, FALSE)
    \/ \E t \in 0..MaxTime : SetXAttr(PathA, TagModifiedTime, FALSE, t, 4)
    \/ Remove(PathA)

SpecTime == InitFormatted /\ [][NextTime]_vars

\* the handle of this step's call names an open descriptor of a mounted
\* filesystem
OnOpenFd ==
    /\ mounted
    /\ last'.file \in LFS_HANDLE_MIN..LFS_HANDLE_MAX
    /\ FdOf(last'.file).open

\* C21: fsetxattr(ModifiedTime) on a descriptor open for writing returns
\* FS_OK, caches the value in the descriptor, sets TimeChanged and makes no
\* engine call; fgetxattr(ModifiedTime) makes no engine call and, like fstat,
\* returns the cached time; only write, fsetxattr and close change the
\* cached time of an open descriptor.
C21_CachedMtime ==
    [][/\ (Did("fsetxattr") /\ OnOpenFd /\ "Write" \in FdOf(last'.file).flags
           /\ last'.tag = TagModifiedTime /\ ~last'.dataNull /\ last'.size = 4)
          => /\ last'.res = FS_OK
             /\ last'.calls = <<>>
             /\ vol' = vol
             /\ fileDescriptors'[last'.file - LFS_HANDLE_MIN].mtime = last'.val
             /\ "TimeChanged" \in fileDescriptors'[last'.file - LFS_HANDLE_MIN].flags
       /\ (Did("fgetxattr") /\ last'.tag = TagModifiedTime) => last'.calls = <<>>
       /\ (Did("fgetxattr") /\ OnOpenFd /\ last'.tag = TagModifiedTime)
          => (last'.res = Ok(4) /\ last'.data = <<FdOf(last'.file).mtime>>)
       /\ (Did("fstat") /\ OnOpenFd)
          => (last'.res = FS_OK /\ last'.stat.mtime = FdOf(last'.file).mtime)
       /\ \A i \in Slots :
             (fileDescriptors[i].open /\ last'.op \notin {"write", "fsetxattr", "close"})
             => (fileDescriptors'[i].open
                 /\ fileDescriptors'[i].mtime = fileDescriptors[i].mtime)
      ]_vars

\* the time 0, which the clock never shows and so was set through fsetxattr,
\* was read back by fstat from a descriptor that still has TimeChanged set
C21_Witness ==
    /\ last.op = "fstat"
    /\ last.res = FS_OK
    /\ "TimeChanged" \in FdOf(last.file).flags
    /\ last.stat.mtime = FdOf(last.file).mtime
    /\ last.stat.mtime = 0

\* this step is a getxattr of a system tag, on a mounted filesystem, with a
\* buffer smaller than the tag's fixed size
UndersizedGet ==
    /\ Did("getxattr")
    /\ mounted
    /\ last'.tag < TagUser
    /\ last'.size < getAttributeSize(last'.tag)

\* C22 as stated: an undersized get of a system tag makes no engine call,
\* leaves the buffer untouched and returns a negative value, which no
\* successful get returns.
C22_Original ==
    [][UndersizedGet =>
          (last'.calls = <<>> /\ last'.data = <<>> /\ last'.res.code # "OK")
      ]_vars

\* C22: an undersized get of a system tag makes no engine call, leaves the
\* buffer untouched and returns the tag's fixed size as a non-negative
\* value, larger than the size of the buffer passed.
C22_RequiredSize ==
    [][UndersizedGet =>
          /\ last'.calls = <<>>
          /\ last'.data = <<>>
          /\ last'.res = Ok(getAttributeSize(last'.tag))
          /\ last'.res.val > last'.size
      ]_vars

\* a get of the stored FileAttributes attribute with a buffer of 0 bytes
\* returned 1, the value a successful get returns
C22_Witness ==
    /\ last.op = "getxattr"
    /\ last.tag = TagFileAttributes
    /\ last.size = 0
    /\ last.res = Ok(1)
    /\ Exists(vol, Node(last.path))
    /\ TagFileAttributes \in DOMAIN vol[Node(last.path)].attrs

\* C23: fremove on an open handle of a mounted filesystem returns ReadOnly
\* when the file's stored FileAttributes has the ReadOnly bit and
\* NotImplemented otherwise, and changes neither the descriptor table nor
\* the volume: the handle stays open, the file stays with its content.
C23_FRemoveKeeps ==
    [][(Did("fremove") /\ OnOpenFd) =>
          /\ last'.res = IF ~FdOf(last'.file).file.orphan
                             /\ NodeReadOnly(FdOf(last'.file).file.node)
                          THEN Err("ReadOnly") ELSE Err("NotImplemented")
          /\ fileDescriptors' = fileDescriptors
          /\ vol' = vol
      ]_vars

\* fremove was refused with ReadOnly on a file that has content; the handle
\* is open and the file is there
C23_Witness ==
    /\ last.op = "fremove"
    /\ last.res = Err("ReadOnly")
    /\ mounted
    /\ FdOf(last.file).open
    /\ Exists(vol, FdOf(last.file).file.node)
    /\ vol[FdOf(last.file).file.node].data # <<>>

\* C24: no public method returns an engine error code as it is: every
\* result is non-negative, a unified code, or an engine code carried into
\* the system range by the translation.
C24_NoRawCode == last.res.code # "Raw"

(***************************************************************************)
(* SpecTranslate: translateLfsError and getErrorString on the integers     *)
(* -MaxLfsCode..MaxLfsCode, the engine's codes among them.                 *)
(***************************************************************************)
MaxLfsCode == 300

\* lfs.h enum lfs_error
LfsErrNo ==
    [IO |-> -5, CORRUPT |-> -84, NOENT |-> -2, EXIST |-> -17, NOTDIR |-> -20,
     ISDIR |-> -21, NOTEMPTY |-> -39, BADF |-> -9, FBIG |-> -27, INVAL |-> -22,
     NOSPC |-> -28, NOMEM |-> -12, NOATTR |-> -61, NAMETOOLONG |-> -36]

\* IFS::Error::SYSTEM: the system codes lie at and below it
ErrorSystem == -1000

\* IFS::Error::isSystem(err)
isSystem(err) == err <= ErrorSystem

\* IFS::Error::fromSystem(syscode)
fromSystem(syscode) == IF syscode < 0 THEN ErrorSystem + syscode ELSE syscode

\* IFS::Error::toSystem(err)
toSystem(err) == IF isSystem(err) THEN err - ErrorSystem ELSE err

\* a unified code that is not one of IFS's own: its number
SysErr(n) == [code |-> "System", val |-> n, sys |-> ""]

\* Error.cpp:31-40  LFS_ERROR_TRANSLATION_MAP
TranslationMap ==
    (LfsErrNo.IO :> "ReadFailure") @@ (LfsErrNo.CORRUPT :> "BadFileSystem") @@
    (LfsErrNo.NOENT :> "NotFound") @@ (LfsErrNo.EXIST :> "Exists") @@
    (LfsErrNo.FBIG :> "TooBig") @@ (LfsErrNo.BADF :> "InvalidHandle") @@
    (LfsErrNo.INVAL :> "BadParam") @@ (LfsErrNo.NOSPC :> "NoSpace") @@
    (LfsErrNo.NAMETOOLONG :> "NameTooLong")

\* Mutant: the engine's codes without a unified code are passed on as they are
translateLfsCode_raw(lfs_error) ==
    IF lfs_error \in DOMAIN TranslationMap THEN Err(TranslationMap[lfs_error])
    ELSE IF lfs_error < 0 THEN SysErr(lfs_error)
    ELSE Ok(lfs_error)

\* Error.cpp:57-68  translateLfsError on the engine's integer
translateLfsCode(lfs_error) ==
    IF lfs_error \in DOMAIN TranslationMap THEN Err(TranslationMap[lfs_error])
    ELSE IF fromSystem(lfs_error) < 0 THEN SysErr(fromSystem(lfs_error))
    ELSE Ok(fromSystem(lfs_error))

\* Error.cpp:42-55, 70-73  errorMap and lfsErrorToStr: the text for an engine
\* code, empty for a code that the map does not hold
lfsErrorToStr(err) ==
    LET key == IF err < 0 THEN err ELSE 0
    IN  CASE key = LfsErrNo.NOTDIR   -> "NOTDIR"
          [] key = LfsErrNo.ISDIR    -> "ISDIR"
          [] key = LfsErrNo.NOTEMPTY -> "NOTEMPTY"
          [] key = LfsErrNo.NOMEM    -> "NOMEM"
          [] key = LfsErrNo.NOATTR   -> "NOATTR"
          [] OTHER                   -> ""

\* IFS_ERROR_MAP: the names of IFS's own codes, the code of the i-th being
\* 1 - i (Success is 0, NoFileSystem -1, ...)
IfsErrorNames ==
    <<"Success", "NoFileSystem", "NoPartition", "BadPartition", "BadVolumeIndex",
      "NotMounted", "BadObject", "BadFileSystem", "BadParam", "NotImplemented",
      "NotSupported", "NoMem", "NameTooLong", "BufferTooSmall", "NotFound", "Exists",
      "ReadOnly", "ReadFailure", "WriteFailure", "EraseFailure", "InvalidHandle",
      "InvalidObjectRef", "InvalidObject", "EndOfObjects", "FileNotOpen", "SeekBounds",
      "NoMoreFiles", "OutOfFileDescs">>

\* IFS::Error::toString(err): the name of one of IFS's own codes; a positive
\* value counts as Success; empty for a code beyond the names above
IfsErrorToString(err) ==
    LET i == IF err > 0 THEN 1 ELSE 1 - err
    IN  IF i \in DOMAIN IfsErrorNames THEN IfsErrorNames[i] ELSE ""

\* FileSystem.cpp:232-239  getErrorString: [key, text], key the code the text
\* is looked up by: the engine's code for a code of the system range, the
\* code itself otherwise
getErrorString(err) ==
    IF isSystem(err)
    THEN [key |-> toSystem(err), text |-> lfsErrorToStr(toSystem(err))]
    ELSE [key |-> err, text |-> IfsErrorToString(err)]

\* translateLfsError(lfs_error), then getErrorString for a system-range result
Translate(lfs_error) ==
    /\ last' = [NoCall EXCEPT !.op = "translateLfsError", !.engine = lfs_error,
                              !.res = translateLfsCode(lfs_error),
                              !.data = IF translateLfsCode(lfs_error).code = "System"
                                       THEN <<getErrorString(translateLfsCode(lfs_error).val)>>
                                       ELSE <<>>]
    /\ UNCHANGED <<partition, formatted, vol, mounted, fileDescriptors, rootAcl, now, rt,
                   dirs, profiler>>

\* getErrorString(err) on any code
GetErrorString(err) ==
    /\ last' = [NoCall EXCEPT !.op = "getErrorString", !.engine = err,
                              !.data = <<getErrorString(err)>>]
    /\ UNCHANGED <<partition, formatted, vol, mounted, fileDescriptors, rootAcl, now, rt,
                   dirs, profiler>>

NextTranslate ==
    \/ \E e \in (0 - MaxLfsCode)..MaxLfsCode : Translate(e)
    \/ \E e \in (ErrorSystem - MaxLfsCode)..MaxLfsCode : GetErrorString(e)

SpecTranslate == InitFormatted /\ [][NextTranslate]_vars

\* C25: translateLfsError gives each of the nine mapped engine codes its
\* unified code, every other negative engine code e a code s of the system
\* range with toSystem(s) = e, the key getErrorString looks the text up by,
\* and every non-negative value unchanged.
C25_Translate ==
    (last.op = "translateLfsError") =>
        LET e == last.engine
        IN  /\ e = -5  => last.res = Err("ReadFailure")
            /\ e = -84 => last.res = Err("BadFileSystem")
            /\ e = -2  => last.res = Err("NotFound")
            /\ e = -17 => last.res = Err("Exists")
            /\ e = -27 => last.res = Err("TooBig")
            /\ e = -9  => last.res = Err("InvalidHandle")
            /\ e = -22 => last.res = Err("BadParam")
            /\ e = -28 => last.res = Err("NoSpace")
            /\ e = -36 => last.res = Err("NameTooLong")
            /\ (e < 0 /\ e \notin {-5, -84, -2, -17, -27, -9, -22, -28, -36}) =>
                  /\ last.res.code = "System"
                  /\ isSystem(last.res.val)
                  /\ toSystem(last.res.val) = e
                  /\ last.data[1].key = e
            /\ e >= 0 => last.res = Ok(e)

\* the engine's NOATTR, which has no unified code, was translated and its
\* text found by the engine's code
C25_Witness ==
    /\ last.op = "translateLfsError"
    /\ last.engine = -61
    /\ last.res.code = "System"
    /\ last.data = <<[key |-> -61, text |-> "NOATTR"]>>

(***************************************************************************)
(* SpecBridge: the block-device callbacks the engine calls, on blocks of   *)
(* the partition, while a profiler is installed or not and the partition   *)
(* operation succeeds or fails.                                            *)
(***************************************************************************)
MaxIoSize == 2

\* one call of an IProfiler method
Report(kind, addr, size) == [kind |-> kind, addr |-> addr, size |-> size]

\* FileSystem.h:183-195  f_read: [err, reports]
f_read(block, off, size, ok) ==
    LET addr == (block * LFS_BLOCK_SIZE) + off
    IN  IF ~ok THEN [err |-> "LFS_ERR_IO_READ", reports |-> <<>>]
        ELSE [err |-> "LFS_ERR_OK",
              reports |-> IF profiler THEN <<Report("read", addr, size)>> ELSE <<>>]

\* FileSystem.h:197-206  f_prog: [err, reports]
f_prog(block, off, size, ok) ==
    LET addr == (block * LFS_BLOCK_SIZE) + off
    IN  [err     |-> IF ok THEN "LFS_ERR_OK" ELSE "LFS_ERR_IO_WRITE",
         reports |-> IF profiler THEN <<Report("write", addr, size)>> ELSE <<>>]

\* FileSystem.h:208-218  f_erase: [err, reports]
f_erase(block, ok) ==
    LET addr == block * LFS_BLOCK_SIZE
    IN  [err     |-> IF ok THEN "LFS_ERR_OK" ELSE "LFS_ERR_IO_ERASE",
         reports |-> IF profiler THEN <<Report("erase", addr, LFS_BLOCK_SIZE)>> ELSE <<>>]

\* the state after a callback: its arguments (block, offset, size, whether
\* the partition failed), the engine code it returns to the engine and the
\* reports the profiler got
ApplyBridge(op, block, off, size, ok, out) ==
    /\ last' = [NoCall EXCEPT !.op = op, !.engine = block, !.val = off, !.size = size,
                              !.fault = ~ok,
                              !.res = IF out.err = "LFS_ERR_OK" THEN FS_OK
                                      ELSE [code |-> "Raw", val |-> 0, sys |-> out.err],
                              !.data = out.reports]
    /\ UNCHANGED <<partition, formatted, vol, mounted, fileDescriptors, rootAcl, now>>

F_read(block, off, size, ok) ==
    /\ ApplyBridge("f_read", block, off, size, ok, f_read(block, off, size, ok))
    /\ UNCHANGED <<rt, dirs, profiler>>

F_prog(block, off, size, ok) ==
    /\ ApplyBridge("f_prog", block, off, size, ok, f_prog(block, off, size, ok))
    /\ UNCHANGED <<rt, dirs, profiler>>

F_erase(block, ok) ==
    /\ ApplyBridge("f_erase", block, 0, LFS_BLOCK_SIZE, ok, f_erase(block, ok))
    /\ UNCHANGED <<rt, dirs, profiler>>

\* FileSystem.cpp:226-230  FileSystem::setProfiler
SetProfiler(installed) ==
    /\ profiler' = installed
    /\ last' = [NoCall EXCEPT !.op = "setProfiler", !.res = FS_OK]
    /\ UNCHANGED <<partition, formatted, vol, mounted, fileDescriptors, rootAcl, now, rt,
                   dirs>>

NextBridge ==
    \/ \E p \in BOOLEAN : SetProfiler(p)
    \/ \E b \in 0..(PartitionBlocks - 1), off \in 0..1, sz \in 1..MaxIoSize, ok \in BOOLEAN :
          F_read(b, off, sz, ok)
    \/ \E b \in 0..(PartitionBlocks - 1), off \in 0..1, sz \in 1..MaxIoSize, ok \in BOOLEAN :
          F_prog(b, off, sz, ok)
    \/ \E b \in 0..(PartitionBlocks - 1), ok \in BOOLEAN : F_erase(b, ok)

SpecBridge == InitFormatted /\ [][NextBridge]_vars

\* C26: while a profiler is installed each read, program and erase callback
\* reports to it once, with the address block * blockSize + offset and the
\* operation's size, whether the partition operation succeeds or fails;
\* with no profiler installed nothing is reported.
C26_ProfilerReports ==
    [][(last'.op \in {"f_read", "f_prog", "f_erase"}) =>
          last'.data = IF profiler
                       THEN <<Report(CASE last'.op = "f_read"  -> "read"
                                       [] last'.op = "f_prog"  -> "write"
                                       [] last'.op = "f_erase" -> "erase",
                                     (last'.engine * LFS_BLOCK_SIZE) + last'.val,
                                     last'.size)>>
                       ELSE <<>>
      ]_vars

\* C27: a successful open returns a handle in [LFS_HANDLE_MIN, LFS_HANDLE_MAX]
\* whose slot was empty, so it differs from every handle open before; that
\* slot alone is now occupied in addition; no open, successful or not,
\* changes an occupied slot; at most LFS_MAX_FDS descriptors are open.
C27_HandlesDistinct ==
    [][Did("open") =>
          /\ \A i \in OpenSlots : fileDescriptors'[i] = fileDescriptors[i]
          /\ Cardinality(OpenSlots') <= LFS_MAX_FDS
          /\ ~IsErr(last'.res) =>
                /\ last'.res.val \in LFS_HANDLE_MIN..LFS_HANDLE_MAX
                /\ (last'.res.val - LFS_HANDLE_MIN) \in FreeSlots
                /\ OpenSlots' = OpenSlots \cup {last'.res.val - LFS_HANDLE_MIN}
      ]_vars

\* an open succeeded while another descriptor was open and got another handle
C27_Witness ==
    /\ last.op = "open"
    /\ ~IsErr(last.res)
    /\ last.res.val > LFS_HANDLE_MIN
    /\ fileDescriptors[0].open
    /\ fileDescriptors[last.res.val - LFS_HANDLE_MIN].open

\* C29: when the engine's open fails, open returns the engine's error
\* translated and the descriptor table is as it was before the call.
C29_FailedOpenReleases ==
    [][(Did("open") /\ FreeSlots # {} /\ PassesOpenChecks /\ ~EngineOpens) =>
          /\ last'.res = translateLfsError(LfsErr(
                  lfs_file_opencfg(vol, Node(OrEmpty(FS_CHECK_PATH(last'.path))),
                                   mapFileOpenFlags(last'.flags).oflags, last'.fault).err))
          /\ IsErr(last'.res)
          /\ fileDescriptors' = fileDescriptors
          /\ OpenSlots' = OpenSlots
      ]_vars

\* the engine refused an open that had got a slot, with another descriptor
\* open; the table holds that descriptor only
C29_Witness ==
    /\ last.op = "open"
    /\ last.calls # <<>>
    /\ last.calls[Len(last.calls)] = "lfs_file_opencfg"
    /\ IsErr(last.res)
    /\ OpenSlots = {0}

\* C30: tryMount's assert(!mounted) holds whenever tryMount is entered, after
\* any sequence of public operations, mount on a mounted filesystem included.
C30_AssertHolds == ~last.assert

\* this step is close or flush on an open descriptor
ClosesOrFlushes ==
    /\ last'.op \in {"close", "flush"}
    /\ OnOpenFd

\* the engine call that ends this step's close or flush
EngineEnd == IF last'.op = "close" THEN "lfs_file_close" ELSE "lfs_file_sync"

\* close and flush on a descriptor with TimeChanged set issue the attribute
\* write of the cached time before the engine's close or sync and clear the
\* flag; with TimeChanged clear they issue no attribute write
FlushMetaOrder ==
    /\ (ClosesOrFlushes /\ "TimeChanged" \in FdOf(last'.file).flags)
       => /\ last'.calls = <<"lfs_file_setattr", EngineEnd>>
          /\ "TimeChanged" \notin fileDescriptors'[last'.file - LFS_HANDLE_MIN].flags
          /\ ~FdOf(last'.file).file.orphan
             => StoredMtime(vol', FdOf(last'.file).file.node) = FdOf(last'.file).mtime
    /\ (ClosesOrFlushes /\ "TimeChanged" \notin FdOf(last'.file).flags)
       => /\ \A i \in DOMAIN last'.calls : last'.calls[i] # "lfs_file_setattr"
          /\ StoredMtime(vol', FdOf(last'.file).file.node)
                = StoredMtime(vol, FdOf(last'.file).file.node)

\* C28 as stated: close and flush write the cached time before the engine's
\* close or sync when TimeChanged is set, and issue no attribute write when
\* it is clear; after every successful close the stored ModifiedTime of the
\* file equals the time cached in the descriptor.
C28_Original ==
    [][/\ FlushMetaOrder
       /\ (Did("close") /\ OnOpenFd /\ ~IsErr(last'.res))
          => StoredMtime(vol', FdOf(last'.file).file.node) = FdOf(last'.file).mtime
      ]_vars

\* C28: close and flush write the cached time before the engine's close or
\* sync when TimeChanged is set, and issue no attribute write when it is
\* clear; after a close or flush of a descriptor that had TimeChanged set and
\* whose file is still in place, the stored ModifiedTime equals the cached
\* time; a close with TimeChanged clear leaves the stored time as it was.
C28_FlushMeta == [][FlushMetaOrder]_vars

\* a successful close wrote the time 0 that fsetxattr had cached
C28_Witness ==
    /\ last.op = "close"
    /\ last.calls = <<"lfs_file_setattr", "lfs_file_close">>
    /\ ~IsErr(last.res)
    /\ Exists(vol, Node(PathA))
    /\ TagModifiedTime \in DOMAIN vol[Node(PathA)].attrs
    /\ StoredMtime(vol, Node(PathA)) = 0

\* C31: after format() no descriptor opened before the format remains in the
\* table, so every occupied slot refers to a file open in the engine instance
\* that is mounted now.
C31_NoStaleDescriptor == (last.op = "format") => (OpenSlots = {})

(***************************************************************************)
(* SpecReadOnly: two files, the read-only attribute, and the calls that    *)
(* delete, move or replace an entry.                                       *)
(***************************************************************************)
PathsReadOnly == {PathA, PathB}

HandlesReadOnly == {LFS_HANDLE_MIN}

NextReadOnly ==
    \/ (~mounted /\ Mount(FALSE, FALSE, FALSE))
    \/ \E p \in PathsReadOnly,
           fl \in {{"Write", "Create"}, {"Write", "Truncate"}, {"Read", "Truncate"}} :
          (OpenSlots = {} /\ Open(p, fl, FALSE))
    \/ \E h \in HandlesReadOnly : Close(h, FALSE)
    \/ \E h \in HandlesReadOnly : Write(h, <<1>>)
    \/ \E p \in PathsReadOnly, v \in {0, ReadOnlyMask} :
          SetXAttr(p, TagFileAttributes, FALSE, v, 1)
    \/ \E p \in PathsReadOnly, q \in PathsReadOnly : Rename(p, q)
    \/ \E p \in PathsReadOnly : Remove(p)
    \/ \E h \in HandlesReadOnly : FRemove(h)

SpecReadOnly == InitFormatted /\ [][NextReadOnly]_vars

\* C32: no remove, fremove, rename or open deletes, replaces, moves or
\* changes the content of a file whose stored FileAttributes has the ReadOnly
\* bit: the file is at its path with the same content after the call.
C32_ReadOnlyStays ==
    [][last'.op \in {"remove", "fremove", "rename", "open"} =>
          \A n \in DOMAIN vol :
              (vol[n].type = "file" /\ NodeReadOnly(n)) =>
                  /\ Exists(vol', n)
                  /\ vol'[n].type = "file"
                  /\ vol'[n].data = vol[n].data
                  /\ vol'[n].attrs = vol[n].attrs
      ]_vars

\* C33: whenever mkdir(path) has returned FS_OK, path names a directory: a
\* stat(path) made next succeeds and reports a directory, also when an entry
\* named path existed before the call.
C33_MkdirMakesDir ==
    (last.op = "mkdir" /\ last.res = FS_OK) =>
        /\ stat(last.path, FALSE).res = FS_OK
        /\ stat(last.path, FALSE).stat.dir

\* C34: a successful write, and a successful ftruncate to a different size,
\* set the descriptor's cached mtime to the current time and set TimeChanged;
\* a failed write or ftruncate leaves the cached mtime and the flags as they
\* were.
C34_ContentChangeTouches ==
    [][(last'.op \in {"write", "ftruncate"} /\ OnOpenFd) =>
          /\ ( /\ ~IsErr(last'.res)
               /\ \/ last'.op = "write"
                  \/ Len(fileDescriptors'[last'.file - LFS_HANDLE_MIN].file.cache)
                        # Len(FdOf(last'.file).file.cache) )
             => /\ fileDescriptors'[last'.file - LFS_HANDLE_MIN].mtime = now
                /\ "TimeChanged" \in fileDescriptors'[last'.file - LFS_HANDLE_MIN].flags
          /\ IsErr(last'.res)
             => /\ fileDescriptors'[last'.file - LFS_HANDLE_MIN].mtime
                     = FdOf(last'.file).mtime
                /\ fileDescriptors'[last'.file - LFS_HANDLE_MIN].flags
                     = FdOf(last'.file).flags
      ]_vars

\* C35: in every reachable state an open descriptor with TimeChanged set has
\* Write set; so a descriptor on which flush was refused with ReadOnly holds
\* no time that is still to be written.
C35_TimeChangedHasWrite ==
    /\ \A i \in Slots :
          (fileDescriptors[i].open /\ "TimeChanged" \in fileDescriptors[i].flags)
              => "Write" \in fileDescriptors[i].flags
    /\ (last.op = "flush" /\ last.res = Err("ReadOnly"))
          => "TimeChanged" \notin FdOf(last.file).flags

\* flush was refused on a descriptor opened for reading, on a file whose
\* time an earlier descriptor had changed and stored
C35_Witness ==
    /\ last.op = "flush"
    /\ last.res = Err("ReadOnly")
    /\ FdOf(last.file).open
    /\ "Write" \notin FdOf(last.file).flags
    /\ FdOf(last.file).mtime > 1

====
